---------------------------- MODULE Spec2Model ----------------------------
(***************************************************************************)
(* A model of the shoonyawallet Trezor protocol engine:                    *)
(*   - the frame codec of trezor/wire.ts (encodeFrame / decodeFrames),     *)
(*   - the error classifier of errors.ts (classifyTrezorError),            *)
(*   - the session state machine and retry/backoff controller of           *)
(*     TrezorBridge.connectAndGetPublicKey, in its two source variants.    *)
(***************************************************************************)
EXTENDS Integers, Sequences, FiniteSets, TLC

VARIABLES
    \* ---- frame codec harness ----
    wirePhase,      \* "idle" | "input" | "encoded" | "decoded"
    wireType,       \* msgType handed to encodeFrame
    wirePayload,    \* payload handed to encodeFrame
    wireFrames,     \* result of encodeFrame
    wireDecoded,    \* result of decodeFrames
    \* ---- a pure function applied to a sampled argument ----
    fnPhase,        \* "idle" | "input" | "applied"
    fnInput,        \* the argument
    fnOutput,       \* the value returned
    \* ---- the call: connectAndGetPublicKey(opts) on a TrezorBridge ----
    variant,        \* which source of the bridge runs: "adapter" | "protocol"
    opts,           \* ConnectOptions
    provider,       \* this.getPassphrase: "none" | "wired"
    logger,         \* this.log: "silent" | "throwing"
    \* ---- the environment: platform and device ----
    supported,      \* TrezorUSB.isSupported()
    port,           \* the transport port behind TrezorUSB.exchange
    dev,            \* the behaviour of the device on the other end
    \* ---- the message catalog (module state of TrezorBridge.ts, proto.ts) ----
    messageDefinitionsLoaded,   \* the flag of ensureMessageDefinitionsLoaded
    loadPc,         \* each caller's position in ensureMessageDefinitionsLoaded
    definitionLoads,\* loadDefinitions calls that completed
    root,           \* proto.ts: "null" | "descriptor" | "fallback"
    rootLoads,      \* times loadRoot built a root
    \* ---- App.tsx: the screen around the shared TrezorBridge ----
    phase,          \* 'idle' | 'connecting' | 'fetching' | 'done' | 'error'
    starts,         \* each invocation of start(): where it stands
    \* ---- the useTrezor hook ----
    isConnecting,   \* state.isConnecting
    isConnected,    \* state.isConnected
    passphraseRequired, \* state.passphraseRequired
    passphraseResolver, \* the connect whose promise the resolver settles,
                    \* 0 for null
    coPc,           \* each invocation of connect(): where it stands
    devKey,         \* public key bytes the device sent last, << >> when none
    \* ---- control state of the call ----
    pc,             \* position in connectAndGetPublicKey
    attempt,        \* the for loop's counter
    err,            \* the error travelling to the catch block, or "none"
    lastErr,        \* lastErr, or "none" for null
    result,         \* the returned string, or "none"
    thrown,         \* the error the call threw, or "none"
    delays,         \* the backoff delays slept so far, in order
    consecutive,    \* waitForDevicePresence: consecutive
    elapsed,        \* waitForDevicePresence: Date.now() - start
    streak,         \* waitForDevicePresence: the polls in a row, up to the
                    \* last one, that completed and listed a device
    guard,          \* the request loop's guard
    keyBytes,       \* key bytes decoded in this attempt, << >> when none
    isHid,          \* this.isHid
    klass,          \* what the last getInterfaceInfo() gave: "none" before the
                    \* first, "hid" | "vendor" | "throws"
    hidMode,        \* wire.ts report mode: "standard" | "leadingZero"
    \* ---- the native handle (TrezorUsbModule) ----
    connection,     \* connection != null
    jsOpen,         \* open() resolved and close() was not called since
    closeFailed,    \* the last close() was rejected
    inflight,       \* requests written to the device and not yet answered
    initReply,      \* handshake(): what the latest Initialize exchange gave,
                    \* "none" outside the handshake
    turn,           \* request loop: the response the latest turn received
                    \* and what it wrote to the device in answer
    \* ---- history of the call ----
    passValue,      \* what the passphrase provider returned last
    passCalls,      \* invocations of the passphrase provider
    acks,           \* PassphraseAck messages written
    ackValue,       \* passphrase carried by the last PassphraseAck
    faults          \* failures of the transport port during the call

fnVars == <<fnPhase, fnInput, fnOutput>>
wireVars == <<wirePhase, wireType, wirePayload, wireFrames, wireDecoded, fnVars>>
loaderVars ==
    <<messageDefinitionsLoaded, loadPc, definitionLoads, root, rootLoads>>
\* what surrounds the bridge and is left alone by a call
appVars == <<phase, starts>>
hookVars ==
    <<isConnecting, isConnected, passphraseRequired, passphraseResolver, coPc>>
sideVars == <<loaderVars, appVars, hookVars>>
cfgVars == <<variant, opts, provider, logger, supported, port, dev, sideVars>>
presVars == <<consecutive, elapsed, streak>>
modeVars == <<isHid, hidMode, klass>>
handleVars == <<connection, jsOpen, closeFailed>>
keyVars == <<keyBytes, devKey>>
passVars == <<passValue, passCalls, acks, ackValue>>
outVars == <<lastErr, result, thrown, delays>>
connVars ==
    <<cfgVars, pc, attempt, err, outVars, presVars, guard, keyVars, modeVars,
      handleVars, inflight, initReply, turn, passVars, faults>>

vars == <<wireVars, connVars>>

\* the variables of the call and of the device
callVars ==
    <<variant, opts, provider, logger, supported, port, dev, pc, attempt, err,
      outVars, presVars, guard, keyVars, modeVars, handleVars, inflight,
      initReply, turn, passVars, faults>>

-----------------------------------------------------------------------------
(* Small helpers *)

Min(a, b) == IF a < b THEN a ELSE b
Max(a, b) == IF a > b THEN a ELSE b

\* Uint8Array.subarray(begin, end) on a 0-based buffer: both ends are clamped
\* to the buffer, and an empty range gives the empty array.
subarray(buf, begin, end) ==
    LET b == Min(Max(begin, 0), Len(buf))
        e == Min(Max(end, 0), Len(buf))
    IN  IF e <= b THEN << >> ELSE SubSeq(buf, b + 1, e)

\* new Uint8Array(n): n zero bytes
Zeros(n) == [i \in 1..n |-> 0]

-----------------------------------------------------------------------------
(* Frame codec: wire.ts *)

REPORT_SIZE == 64

HDR_FIRST == <<63, 35, 35>>     \* 0x3f 0x23 0x23  '?##'
HDR_NEXT  == <<63, 43, 43>>     \* 0x3f 0x2b 0x2b  '?++'

RECURSIVE concat(_)
concat(parts) ==
    IF parts = << >> THEN << >> ELSE Head(parts) \o concat(Tail(parts))

\* a frame handed out as it was filled
padToReportSkipped(frame) == frame

padToReport(frame) ==
    IF Len(frame) = REPORT_SIZE THEN frame
    ELSE frame \o Zeros(REPORT_SIZE - Len(frame))

\* a while loop that never counts: every continuation frame is numbered as
\* the first one
RECURSIVE contFramesUncounted(_, _, _)
contFramesUncounted(payload, offset, seq) ==
    IF offset < Len(payload)
    THEN LET contHeader == HDR_NEXT \o <<(seq \div 256) % 256, seq % 256>>
             avail      == REPORT_SIZE - Len(contHeader)
             chunkData  == subarray(payload, offset, Min(offset + avail, Len(payload)))
         IN  <<padToReport(contHeader \o chunkData)>>
                 \o contFramesUncounted(payload, offset + Len(chunkData), seq)
    ELSE << >>

\* the continuation frames of encodeFrame's while loop, from `offset` on
RECURSIVE contFrames(_, _, _)
contFrames(payload, offset, seq) ==
    IF offset < Len(payload)
    THEN LET contHeader == HDR_NEXT \o <<(seq \div 256) % 256, seq % 256>>
             avail      == REPORT_SIZE - Len(contHeader)
             chunkData  == subarray(payload, offset, Min(offset + avail, Len(payload)))
         IN  <<padToReport(contHeader \o chunkData)>>
                 \o contFrames(payload, offset + Len(chunkData), seq + 1)
    ELSE << >>

encodeFrame(msgType, payload) ==
    LET len         == Len(payload)
        firstHeader == HDR_FIRST
                         \o <<(msgType \div 256) % 256, msgType % 256>>
                         \o <<(len \div 16777216) % 256, (len \div 65536) % 256,
                              (len \div 256) % 256, len % 256>>
        firstAvail  == REPORT_SIZE - Len(firstHeader)
        firstChunk  == subarray(payload, 0, Min(firstAvail, Len(payload)))
    IN  <<padToReport(firstHeader \o firstChunk)>>
            \o contFrames(payload, Len(firstChunk), 0)

\* A 32-bit length assembled from four bytes and made unsigned (>>> 0).  The
\* value is only ever used as the end of a subarray, which clamps it to the
\* buffer, so values of 2^31 and more are represented by 2^31 - 1.
U32(b3, b2, b1, b0) ==
    IF b3 >= 128 THEN 2147483647
    ELSE ((b3 * 256 + b2) * 256 + b1) * 256 + b0

NoHeader == [found |-> FALSE]

tryParseHeader(buf) ==
    IF Len(buf) >= 9 /\ buf[1] = HDR_FIRST[1] /\ buf[2] = HDR_FIRST[2] /\ buf[3] = HDR_FIRST[3]
    THEN [found |-> TRUE, msgType |-> buf[4] * 256 + buf[5],
          payloadLen |-> U32(buf[6], buf[7], buf[8], buf[9]),
          headerLen |-> 9, format |-> "B"]
    ELSE IF Len(buf) >= 8 /\ buf[1] = 63 /\ buf[2] = 35
    THEN [found |-> TRUE, msgType |-> buf[3] + buf[4] * 256,
          payloadLen |-> U32(buf[8], buf[7], buf[6], buf[5]),
          headerLen |-> 8, format |-> "A"]
    ELSE NoHeader

decodeFrames(frames) ==
    LET buf == concat(frames)
        h   == tryParseHeader(buf)
    IN  IF ~h.found THEN [msgType |-> 0, payload |-> buf]
        ELSE [msgType |-> h.msgType,
              payload |-> subarray(buf, h.headerLen, h.headerLen + h.payloadLen)]

-----------------------------------------------------------------------------
(* Error texts.  A message is the sequence of its characters, so that the  *)
(* classifier's substring tests are computed, not assumed.                 *)

\* texts thrown by TrezorBridge.connectAndGetPublicKey (adapter variant)
BridgeErrorText(e) ==
    \* 'Native USB not supported'
    CASE e = "NativeUsbNotSupported" ->
            <<"N","a","t","i","v","e"," ","U","S","B"," ","n","o","t"," ","s",
              "u","p","p","o","r","t","e","d">>
    \* 'No Trezor device found'
      [] e = "NoTrezorDeviceFound" ->
            <<"N","o"," ","T","r","e","z","o","r"," ","d","e","v","i","c","e",
              " ","f","o","u","n","d">>
    \* 'No Trezor device found after presence confirmed'
      [] e = "NoDeviceAfterPresence" ->
            <<"N","o"," ","T","r","e","z","o","r"," ","d","e","v","i","c","e",
              " ","f","o","u","n","d"," ","a","f","t","e","r"," ","p","r","e",
              "s","e","n","c","e"," ","c","o","n","f","i","r","m","e","d">>
    \* 'Passphrase required but no passphrase UI is wired'
      [] e = "PassphraseNoUi" ->
            <<"P","a","s","s","p","h","r","a","s","e"," ","r","e","q","u","i",
              "r","e","d"," ","b","u","t"," ","n","o"," ","p","a","s","s","p",
              "h","r","a","s","e"," ","U","I"," ","i","s"," ","w","i","r","e",
              "d">>
    \* 'Passphrase entry cancelled'
      [] e = "PassphraseCancelled" ->
            <<"P","a","s","s","p","h","r","a","s","e"," ","e","n","t","r","y",
              " ","c","a","n","c","e","l","l","e","d">>
    \* 'Device Failure; action was rejected or passphrase incorrect'
      [] e = "DeviceFailure" ->
            <<"D","e","v","i","c","e"," ","F","a","i","l","u","r","e",";"," ",
              "a","c","t","i","o","n"," ","w","a","s"," ","r","e","j","e","c",
              "t","e","d"," ","o","r"," ","p","a","s","s","p","h","r","a","s",
              "e"," ","i","n","c","o","r","r","e","c","t">>
    \* 'Empty public key payload'
      [] e = "EmptyPublicKey" ->
            <<"E","m","p","t","y"," ","p","u","b","l","i","c"," ","k","e","y",
              " ","p","a","y","l","o","a","d">>
    \* 'Failed to connect to Trezor'
      [] e = "GenericConnectError" ->
            <<"F","a","i","l","e","d"," ","t","o"," ","c","o","n","n","e","c",
              "t"," ","t","o"," ","T","r","e","z","o","r">>

BridgeErrorIds ==
    {"NativeUsbNotSupported",
     "NoTrezorDeviceFound",
     "NoDeviceAfterPresence",
     "PassphraseNoUi",
     "PassphraseCancelled",
     "DeviceFailure",
     "EmptyPublicKey",
     "GenericConnectError"}

\* texts thrown by the @trezor/protocol variant of the bridge
ProtocolBridgeErrorText(e) ==
    \* 'Failed to get public key after 10 attempts'
    CASE e = "LoopExhausted" ->
            <<"F","a","i","l","e","d"," ","t","o"," ","g","e","t"," ","p","u",
              "b","l","i","c"," ","k","e","y"," ","a","f","t","e","r"," ","1",
              "0"," ","a","t","t","e","m","p","t","s">>
    \* 'Message receive timeout'
      [] e = "ReceiveTimeout" ->
            <<"M","e","s","s","a","g","e"," ","r","e","c","e","i","v","e"," ",
              "t","i","m","e","o","u","t">>

ProtocolBridgeErrorIds ==
    {"LoopExhausted",
     "ReceiveTimeout"}

\* texts the native module rejects with (TrezorUsbModule.kt)
NativeErrorText(e) ==
    \* 'Permission denied'
    CASE e = "PermissionDenied" ->
            <<"P","e","r","m","i","s","s","i","o","n"," ","d","e","n","i","e",
              "d">>
    \* 'Device not found'
      [] e = "DeviceNotFound" ->
            <<"D","e","v","i","c","e"," ","n","o","t"," ","f","o","u","n","d">>
    \* 'USB permission not granted'
      [] e = "PermissionNotGranted" ->
            <<"U","S","B"," ","p","e","r","m","i","s","s","i","o","n"," ","n",
              "o","t"," ","g","r","a","n","t","e","d">>
    \* 'Failed to open device'
      [] e = "OpenFailed" ->
            <<"F","a","i","l","e","d"," ","t","o"," ","o","p","e","n"," ","d",
              "e","v","i","c","e">>
    \* 'bulkTransfer write failed: -1'
      [] e = "WriteFailed" ->
            <<"b","u","l","k","T","r","a","n","s","f","e","r"," ","w","r","i",
              "t","e"," ","f","a","i","l","e","d",":"," ","-","1">>
    \* 'bulkTransfer read failed: -1'
      [] e = "ReadFailed" ->
            <<"b","u","l","k","T","r","a","n","s","f","e","r"," ","r","e","a",
              "d"," ","f","a","i","l","e","d",":"," ","-","1">>

NativeErrorIds ==
    {"PermissionDenied",
     "DeviceNotFound",
     "PermissionNotGranted",
     "OpenFailed",
     "WriteFailed",
     "ReadFailed"}

\* a text of the operating system, carried by an exception of the USB stack
OsErrorText(e) ==
    \* 'Device or resource busy'
    CASE e = "DeviceBusy" ->
            <<"D","e","v","i","c","e"," ","o","r"," ","r","e","s","o","u","r",
              "c","e"," ","b","u","s","y">>

OsErrorIds ==
    {"DeviceBusy"}

\* the text of the Error a throwing logger throws
LoggerErrorText(e) ==
    \* 'log sink failed'
    CASE e = "LoggerError" ->
            <<"l","o","g"," ","s","i","n","k"," ","f","a","i","l","e","d">>

LoggerErrorIds ==
    {"LoggerError"}

ErrorIds == BridgeErrorIds \cup ProtocolBridgeErrorIds \cup NativeErrorIds \cup OsErrorIds

\* e.message of the Error with identity e
ErrorText(e) ==
    IF e \in BridgeErrorIds THEN BridgeErrorText(e)
    ELSE IF e \in ProtocolBridgeErrorIds THEN ProtocolBridgeErrorText(e)
    ELSE IF e \in NativeErrorIds THEN NativeErrorText(e)
    ELSE IF e \in LoggerErrorIds THEN LoggerErrorText(e)
    ELSE OsErrorText(e)

-----------------------------------------------------------------------------
(* Error classifier: errors.ts *)

UpperChars ==
    <<"A","B","C","D","E","F","G","H","I","J","K","L","M",
      "N","O","P","Q","R","S","T","U","V","W","X","Y","Z">>
LowerChars ==
    <<"a","b","c","d","e","f","g","h","i","j","k","l","m",
      "n","o","p","q","r","s","t","u","v","w","x","y","z">>

\* the message compared as written
toLowerCaseSkipped(s) == s

\* String.prototype.toLowerCase on the characters used here
toLowerCase(s) ==
    [i \in 1..Len(s) |->
        IF \E k \in 1..26 : UpperChars[k] = s[i]
        THEN LowerChars[CHOOSE k \in 1..26 : UpperChars[k] = s[i]]
        ELSE s[i]]

\* String.prototype.includes
includes(s, sub) ==
    \E i \in 0..(Len(s) - Len(sub)) : SubSeq(s, i + 1, i + Len(sub)) = sub

\* the same tests in the opposite order, so that the last group wins
classifyLastMatch(message) ==
    LET msg == toLowerCase(message) IN
    IF \/ includes(msg, <<"t","r","a","n","s","p","o","r","t">>)
       \/ includes(msg, <<"u","s","b">>)
       \/ includes(msg, <<"h","i","d">>)
       \/ includes(msg, <<"t","i","m","e","o","u","t">>)
    THEN [code |-> "TRANSPORT", retryable |-> TRUE]
    ELSE IF \/ includes(msg, <<"c","a","n","c","e","l","l","e","d">>)
            \/ includes(msg, <<"c","a","n","c","e","l","e","d">>)
            \/ includes(msg, <<"a","b","o","r","t">>)
    THEN [code |-> "CANCELLED", retryable |-> FALSE]
    ELSE IF \/ includes(msg, <<"b","u","s","y">>)
            \/ includes(msg, <<"i","n"," ","u","s","e">>)
    THEN [code |-> "DEVICE_BUSY", retryable |-> TRUE]
    ELSE IF \/ includes(msg, <<"n","o"," ","d","e","v","i","c","e">>)
            \/ includes(msg, <<"d","e","v","i","c","e"," ","n","o","t"," ","f","o","u","n","d">>)
            \/ includes(msg, <<"d","i","s","c","o","n","n","e","c","t","e","d">>)
    THEN [code |-> "DEVICE_NOT_FOUND", retryable |-> TRUE]
    ELSE IF \/ includes(msg, <<"p","e","r","m","i","s","s","i","o","n">>)
            \/ includes(msg, <<"n","o","t"," ","g","r","a","n","t","e","d">>)
            \/ includes(msg, <<"d","e","n","i","e","d">>)
    THEN [code |-> "PERMISSION_DENIED", retryable |-> FALSE]
    ELSE [code |-> "UNKNOWN", retryable |-> TRUE]

classifyTrezorError(message) ==
    LET msg == toLowerCase(message) IN
    IF \/ includes(msg, <<"p","e","r","m","i","s","s","i","o","n">>)
       \/ includes(msg, <<"n","o","t"," ","g","r","a","n","t","e","d">>)
       \/ includes(msg, <<"d","e","n","i","e","d">>)
    THEN [code |-> "PERMISSION_DENIED", retryable |-> FALSE]
    ELSE IF \/ includes(msg, <<"n","o"," ","d","e","v","i","c","e">>)
            \/ includes(msg, <<"d","e","v","i","c","e"," ","n","o","t"," ","f","o","u","n","d">>)
            \/ includes(msg, <<"d","i","s","c","o","n","n","e","c","t","e","d">>)
    THEN [code |-> "DEVICE_NOT_FOUND", retryable |-> TRUE]
    ELSE IF \/ includes(msg, <<"b","u","s","y">>)
            \/ includes(msg, <<"i","n"," ","u","s","e">>)
    THEN [code |-> "DEVICE_BUSY", retryable |-> TRUE]
    ELSE IF \/ includes(msg, <<"c","a","n","c","e","l","l","e","d">>)
            \/ includes(msg, <<"c","a","n","c","e","l","e","d">>)
            \/ includes(msg, <<"a","b","o","r","t">>)
    THEN [code |-> "CANCELLED", retryable |-> FALSE]
    ELSE IF \/ includes(msg, <<"t","r","a","n","s","p","o","r","t">>)
            \/ includes(msg, <<"u","s","b">>)
            \/ includes(msg, <<"h","i","d">>)
            \/ includes(msg, <<"t","i","m","e","o","u","t">>)
    THEN [code |-> "TRANSPORT", retryable |-> TRUE]
    ELSE [code |-> "UNKNOWN", retryable |-> TRUE]

-----------------------------------------------------------------------------
(* base58 of the key bytes: bs58.encode.  Leading zero bytes become        *)
(* leading '1's, the rest is the big-endian number written in base 58.     *)
(* The keys of the model are at most three bytes long, so the number fits. *)

ALPHABET ==
    <<"1","2","3","4","5","6","7","8","9","A","B","C","D","E","F","G","H",
      "J","K","L","M","N","P","Q","R","S","T","U","V","W","X","Y","Z","a",
      "b","c","d","e","f","g","h","i","j","k","m","n","o","p","q","r","s",
      "t","u","v","w","x","y","z">>

RECURSIVE bytesToInt(_)
bytesToInt(bytes) ==
    IF bytes = << >> THEN 0
    ELSE bytesToInt(SubSeq(bytes, 1, Len(bytes) - 1)) * 256 + bytes[Len(bytes)]

RECURSIVE base58Digits(_)
base58Digits(n) ==
    IF n = 0 THEN << >>
    ELSE base58Digits(n \div 58) \o <<ALPHABET[(n % 58) + 1]>>

RECURSIVE leadingZeros(_)
leadingZeros(bytes) ==
    IF bytes # << >> /\ Head(bytes) = 0 THEN 1 + leadingZeros(Tail(bytes)) ELSE 0

toBase58(bytes) ==
    [i \in 1..leadingZeros(bytes) |-> ALPHABET[1]] \o base58Digits(bytesToInt(bytes))

-----------------------------------------------------------------------------
(* Frame codec harness: inputs drawn from bounded sets, then encode, decode *)

\* message types sampled from 0..65535 (both bytes zero, low byte only, high
\* byte only, the test's 1234, all ones)
TypeIds == {0, 1, 255, 256, 1234, 65535}

\* payload lengths of the round-trip property (spec section 8) and of the test
PayloadLens == {0, 1, 10, 55, 56, 114, 115, 120, 1000}

MaxSeed == 2

\* payload bytes: seed+1, seed+2, ... (mod 256); seed 0 and length 10 is the
\* test's [1..10]
PatternPayload(len, seed) == [i \in 1..len |-> (seed + i) % 256]

NoMessage == [msgType |-> 0, payload |-> << >>]

WireIdle ==
    /\ wirePhase = "idle"
    /\ wireType = 0
    /\ wirePayload = << >>
    /\ wireFrames = << >>
    /\ wireDecoded = NoMessage

NoOutput == << >>

FnIdle ==
    /\ fnPhase = "idle"
    /\ fnInput = << >>
    /\ fnOutput = NoOutput

-----------------------------------------------------------------------------
(* The call's inputs *)

MaxAttempts == 3

\* backoff settings: uncapped linear, capped linear, capped exponential, and
\* the defaults of the code (exponential, 3000 ms, capped at 8000 ms)
DelayPlans ==
    {[attemptDelayMs |-> 100, backoff |-> "linear", maxDelayMs |-> 8000],
     [attemptDelayMs |-> 100, backoff |-> "linear", maxDelayMs |-> 150],
     [attemptDelayMs |-> 100, backoff |-> "exponential", maxDelayMs |-> 150],
     [attemptDelayMs |-> 3000, backoff |-> "exponential", maxDelayMs |-> 8000]}

\* ConnectOptions.  The presence parameters are chosen so that a presence
\* wait is a handful of polls: waitForPresenceMs 0 never polls, the retry
\* attempts wait Math.max(10000, attemptDelayMs * 5).
Options ==
    {[maxAttempts |-> MaxAttempts, attemptDelayMs |-> p.attemptDelayMs,
      backoff |-> p.backoff, maxDelayMs |-> p.maxDelayMs,
      waitForPresenceMs |-> 10000, presencePollMs |-> 5000,
      presenceStableCount |-> 2] : p \in DelayPlans}
    \cup
    {[maxAttempts |-> n, attemptDelayMs |-> 3000,
      backoff |-> "exponential", maxDelayMs |-> 8000,
      waitForPresenceMs |-> w, presencePollMs |-> 5000,
      presenceStableCount |-> 2] : n \in 0..MaxAttempts, w \in {0, 10000}}

\* the defaults of the code, with MaxAttempts attempts
DefaultOptions ==
    [maxAttempts |-> MaxAttempts, attemptDelayMs |-> 3000,
     backoff |-> "exponential", maxDelayMs |-> 8000,
     waitForPresenceMs |-> 10000, presencePollMs |-> 5000,
     presenceStableCount |-> 2]

\* the transport port fails at most MaxFaults times in a call
MaxFaults == 1

\* the history counters count up to MaxCount
MaxCount == 2

Counted(n) == Min(n + 1, MaxCount)

Variants == {"adapter", "protocol"}

\* values a wired passphrase provider resolves with; "null" stands for null
\* (the human cancelled)
PassValues == {"hunter2", "null"}

\* public key bytes (short, see toBase58)
Keys == {<<7>>, <<0, 200>>}

-----------------------------------------------------------------------------
(* The device.  It answers every message written to it with one response;  *)
(* the responses are read in the order of the requests.                    *)

Requests == {"Initialize", "SolanaGetPublicKey", "PassphraseAck", "ButtonAck"}

\* "SolanaPublicKey" carries devKey, "EmptyKey" is a SolanaPublicKey message
\* with no key bytes, "Unknown" a well-formed message of another type,
\* "Garbage" bytes without a first-frame header, "None" no bytes at all.
Responses ==
    {"Features", "PassphraseRequest", "ButtonRequest", "Failure",
     "SolanaPublicKey", "EmptyKey", "Unknown", "Garbage", "None"}

\* the transport port.  "native" is TrezorUsbModule.exchange: after a write
\* it reads, and resolves with the chunk it read or rejects when none came.
\* "queued" is the port of the test doubles: a write resolves with no bytes
\* and the response waits for the next exchange without a write.
Ports == {"queued", "native"}

Devices == {"happy", "passphrase", "button", "rejecting", "nokey", "chaos"}

\* the logger handed to the constructor: one that returns, one that throws
\* whenever it is called
Loggers == {"silent", "throwing"}

\* the requests the device has still to answer, once req is written; the
\* answers of the "chaos" device do not depend on what it was asked
Queued(req) == IF dev = "chaos" THEN <<req>> ELSE Append(inflight, req)

DeviceAnswers(d, req) ==
    IF d = "chaos" THEN Responses
    ELSE IF req = "Initialize" THEN {"Features"}
    ELSE CASE d = "happy" -> {"SolanaPublicKey"}
           [] d = "passphrase" ->
                IF req = "SolanaGetPublicKey" THEN {"PassphraseRequest"}
                ELSE {"SolanaPublicKey"}
           [] d = "button" ->
                IF req = "SolanaGetPublicKey" THEN {"ButtonRequest"}
                ELSE {"SolanaPublicKey"}
           [] d = "rejecting" -> {"Failure"}
           [] d = "nokey" -> {"Unknown", "Garbage", "EmptyKey"}

\* errors of the transport port, by operation
PermissionErrors == {"PermissionDenied", "DeviceNotFound"}
OpenErrors == {"PermissionNotGranted", "OpenFailed", "DeviceBusy"}
WriteErrors == {"WriteFailed"}
CloseErrors == {"DeviceBusy"}

-----------------------------------------------------------------------------
(* TrezorBridge.connectAndGetPublicKey *)

\* no turn of the request loop has been taken, or another step came after it
NoTurn == [seen |-> "none", sent |-> "none"]

MaxCallers == 3

\* the code paths that call into the catalog
Callers == 1..MaxCallers

\* module state as the modules are evaluated: nothing loaded
LoaderIdle ==
    /\ messageDefinitionsLoaded = FALSE
    /\ loadPc = [c \in Callers |-> "idle"]
    /\ definitionLoads = 0
    /\ root = "null"
    /\ rootLoads = 0

MaxStarts == 3

\* the invocations of start(): auto-start, button presses
Starts == 1..MaxStarts

\* App as mounted: useState('idle'), start() not yet invoked
AppIdle ==
    /\ phase = "idle"
    /\ starts = [s \in Starts |-> "none"]

MaxConnects == 3

\* the invocations of the hook's connect()
Connects == 1..MaxConnects

\* the hook's initial state
HookIdle ==
    /\ isConnecting = FALSE
    /\ isConnected = FALSE
    /\ passphraseRequired = FALSE
    /\ passphraseResolver = 0
    /\ coPc = [c \in Connects |-> "none"]

SideIdle == LoaderIdle /\ AppIdle /\ HookIdle

ConnIdle ==
    /\ SideIdle
    /\ variant = "adapter"
    /\ opts = [maxAttempts |-> 0, attemptDelayMs |-> 100, backoff |-> "linear",
               maxDelayMs |-> 150, waitForPresenceMs |-> 0,
               presencePollMs |-> 5000, presenceStableCount |-> 2]
    /\ provider = "none"
    /\ logger = "silent"
    /\ supported = FALSE
    /\ port = "queued"
    /\ dev = "happy"
    /\ devKey = << >>
    /\ pc = "idle"
    /\ attempt = 1
    /\ err = "none"
    /\ lastErr = "none"
    /\ result = "none"
    /\ thrown = "none"
    /\ delays = << >>
    /\ consecutive = 0
    /\ elapsed = 0
    /\ streak = 0
    /\ guard = 0
    /\ keyBytes = << >>
    /\ isHid = FALSE
    /\ klass = "none"
    /\ hidMode = "standard"
    /\ connection = FALSE
    /\ jsOpen = FALSE
    /\ closeFailed = FALSE
    /\ inflight = << >>
    /\ initReply = "none"
    /\ turn = NoTurn
    /\ passValue = "none"
    /\ passCalls = 0
    /\ acks = 0
    /\ ackValue = "none"
    /\ faults = 0

\* the combinations of inputs explored: the provider matters to the devices
\* that can prompt, the device does not matter where USB is unsupported, and
\* the device that answers anything, and the native port, are driven with
\* the default options
Scenario ==
    /\ provider = "wired" => dev \in {"passphrase", "chaos"}
    /\ ~supported => dev = "happy"
    /\ (dev = "chaos" \/ port = "native") => opts = DefaultOptions

\* a new TrezorBridge, and connectAndGetPublicKey(opts) called on it
InitConnect ==
    /\ SideIdle
    /\ variant \in Variants
    /\ opts \in Options
    /\ provider \in {"none", "wired"}
    /\ logger \in Loggers
    /\ supported \in BOOLEAN
    /\ port \in Ports
    /\ dev \in Devices
    /\ Scenario
    /\ devKey = << >>
    /\ pc = "prepare"
    /\ attempt = 1
    /\ err = "none"
    /\ lastErr = "none"
    /\ result = "none"
    /\ thrown = "none"
    /\ delays = << >>
    /\ consecutive = 0
    /\ elapsed = 0
    /\ streak = 0
    /\ guard = 0
    /\ keyBytes = << >>
    /\ isHid = FALSE
    /\ klass = "none"
    /\ hidMode = "standard"
    /\ connection = FALSE
    /\ jsOpen = FALSE
    /\ closeFailed = FALSE
    /\ inflight = << >>
    /\ initReply = "none"
    /\ turn = NoTurn
    /\ passValue = "none"
    /\ passCalls = 0
    /\ acks = 0
    /\ ackValue = "none"
    /\ faults = 0

\* the transport port fails: at most MaxFaults times in a call, and not
\* under the device that answers anything
Fault ==
    /\ faults < MaxFaults
    /\ dev # "chaos"
    /\ faults' = faults + 1

\* a throw that is swallowed: the attempt goes on to the request loop
RaiseSwallowed(e) ==
    /\ pc' = "pkloop"
    /\ err' = e

\* throw e inside the try block of the attempt
Raise(e) ==
    /\ pc' = "catch"
    /\ err' = e

\* the call begins: this.log('Preparing native USB transport ...') ahead of
\* the loop and outside its try block (the platform is Android).  What the
\* logger throws leaves the call.
Prepare ==
    /\ pc = "prepare"
    /\ IF logger = "throwing"
       THEN thrown' = "LoggerError" /\ pc' = "thrown"
       ELSE pc' = "loop" /\ UNCHANGED thrown
    /\ UNCHANGED <<cfgVars, attempt, err, lastErr, result, delays, presVars,
                   guard, keyVars, modeVars, handleVars, inflight, passVars,
                   faults, initReply, turn, wireVars>>

\* the for loop's test with one attempt more
LoopTestOneMore == attempt <= opts.maxAttempts + 1

\* the for loop's test
LoopTest == attempt <= opts.maxAttempts

\* a throw statement that always throws the generic error
ThrownGeneric == "GenericConnectError"

\* throw lastErr instanceof Error ? lastErr : new Error(...)
ThrownError == IF lastErr # "none" THEN lastErr ELSE "GenericConnectError"

\* the for loop's test fails: throw lastErr, or the generic error when
\* lastErr is not an Error
ExitLoop ==
    /\ pc = "loop"
    /\ ~LoopTest
    /\ thrown' = ThrownError
    /\ pc' = "thrown"
    /\ UNCHANGED <<cfgVars, attempt, err, lastErr, result, delays, presVars,
                   guard, keyVars, modeVars, handleVars, inflight, passVars,
                   faults, initReply, turn, wireVars>>

\* the for loop's test holds: the attempt starts, up to the call of
\* waitForDevicePresence
BeginAttempt ==
    /\ pc = "loop"
    /\ LoopTest
    /\ IF ~supported
       THEN /\ Raise("NativeUsbNotSupported")
            /\ UNCHANGED presVars
       ELSE /\ pc' = "presence"
            /\ consecutive' = 0
            /\ elapsed' = 0
            /\ streak' = 0
            /\ err' = "none"
    /\ guard' = 0
    /\ keyBytes' = << >>
    /\ devKey' = << >>
    /\ inflight' = << >>
    /\ UNCHANGED <<cfgVars, attempt, outVars, modeVars, handleVars,
                   passVars, faults, initReply, turn, wireVars>>

\* maxWaitMs of this attempt's presence wait
PresenceWaitMs ==
    IF attempt = 1 THEN opts.waitForPresenceMs
    ELSE Max(10000, opts.attemptDelayMs * 5)

\* a clock that stands still
ClockStopped(t, ms) == t

\* Date.now() - start once simulateDelay(ms) has resolved: the timer fires
\* no earlier than ms after it was set
AfterSleep(t, ms) == t + ms

\* waitForDevicePresence: one turn of its while loop (a poll and the sleep
\* after it), or its exit with false when the time is up
WaitForDevicePresence ==
    /\ pc = "presence"
    /\ IF elapsed < PresenceWaitMs
       THEN \E listed \in {"devices", "empty", "error"} :
              IF listed = "devices" /\ consecutive + 1 >= opts.presenceStableCount
              THEN /\ consecutive' = consecutive + 1
                   /\ streak' = streak + 1
                   /\ pc' = "list"
                   /\ UNCHANGED <<elapsed, err, faults>>
              ELSE /\ consecutive' = CASE listed = "devices" -> consecutive + 1
                                       [] listed = "empty" -> 0
                                       [] listed = "error" -> consecutive
                   /\ streak' = IF listed = "devices" THEN streak + 1 ELSE 0
                   /\ elapsed' = AfterSleep(elapsed, opts.presencePollMs)
                   /\ UNCHANGED <<pc, err, faults>>
       ELSE /\ Raise("NoTrezorDeviceFound")
            /\ streak' = 0
            /\ UNCHANGED <<consecutive, elapsed, faults>>
    /\ UNCHANGED <<cfgVars, attempt, outVars, guard, keyVars, modeVars,
                   handleVars, inflight, passVars, initReply, turn, wireVars>>

\* after the 500 ms settle delay: TrezorUSB.list() and the choice of devices[0]
ListDevices ==
    /\ pc = "list"
    /\ \/ /\ pc' = "permission"
          /\ UNCHANGED <<err, faults>>
       \/ /\ Raise("NoDeviceAfterPresence")
          /\ Fault
    /\ streak' = 0
    /\ UNCHANGED <<cfgVars, attempt, outVars, consecutive, elapsed, guard, keyVars,
                   modeVars, handleVars, inflight, passVars, initReply, turn, wireVars>>

EnsurePermission ==
    /\ pc = "permission"
    /\ \/ /\ pc' = "open"
          /\ UNCHANGED <<err, faults>>
       \/ \E e \in PermissionErrors :
            /\ Raise(e)
            /\ Fault
    /\ UNCHANGED <<cfgVars, attempt, outVars, presVars, guard, keyVars,
                   modeVars, handleVars, inflight, passVars, initReply, turn, wireVars>>

OpenDevice ==
    /\ pc = "open"
    /\ \/ /\ pc' = "ifaceinfo"
          /\ connection' = TRUE
          /\ jsOpen' = TRUE
          /\ closeFailed' = FALSE
          /\ UNCHANGED <<err, faults>>
       \/ \E e \in OpenErrors :
            /\ Raise(e)
            /\ Fault
            /\ UNCHANGED handleVars
    /\ UNCHANGED <<cfgVars, attempt, outVars, presVars, guard, keyVars,
                   modeVars, inflight, passVars, initReply, turn, wireVars>>

\* getInterfaceInfo, inside its own try/catch: class 0x03 is HID; when the
\* call throws, isHid keeps its value
DetermineTransport ==
    /\ pc = "ifaceinfo"
    /\ \E info \in {"hid", "vendor", "throws"} :
          /\ isHid' = CASE info = "hid" -> TRUE
                        [] info = "vendor" -> FALSE
                        [] info = "throws" -> isHid
          /\ klass' = info
          /\ IF info = "throws" THEN Fault ELSE UNCHANGED faults
    /\ pc' = "handshake"
    /\ UNCHANGED <<cfgVars, attempt, err, outVars, presVars, guard, keyVars,
                   hidMode, handleVars, inflight, passVars, initReply, turn, wireVars>>

\* a retry that always turns the leading-zero mode on
RetryModeAlwaysLeadingZero == "leadingZero"

\* setHIDReportMode('leadingZero') when the first Initialize failed on HID
RetryMode == IF isHid THEN "leadingZero" ELSE hidMode

\* the request whose response the next read returns, once req is written
Answered(req) == Head(Queued(req))

\* the queue after an acknowledgement is written by sendOnly / sendMessage
AfterAck(q, req) ==
    IF dev = "chaos" \/ port = "native" THEN q ELSE Append(q, req)

\* the exchange that writes a request rejects: on the native port it reads
\* after the write, and the device sent nothing
WriteRejected(r) == port = "native" /\ r = "None"

\* what is left of response r for the reads that follow the write: the native
\* port has handed the response to the write's caller, which drops it
Heard(r) == IF port = "native" THEN "None" ELSE r

\* what the receive half of an exchange hands to the bridge.  The adapter
\* variant (sendAndReceive) polls until its timeout and then returns type 0
\* for bytes without a header or for no bytes; the protocol variant
\* (receiveMessage) keeps reading and then throws 'Message receive timeout'.
Received(r) ==
    IF r \in {"Garbage", "None"}
    THEN (IF variant = "adapter" THEN "type0" ELSE "timeout")
    ELSE r

\* first field of a real Features payload (vendor), which the adapter
\* variant's decodeSolanaPublicKey reads as key bytes
VendorBytes == <<116, 114>>

\* what handshake() got from its exchange when the device answered r: the
\* exchange threw, or it gave what the receive half hands over
InitReply(r) == IF WriteRejected(r) THEN "threw" ELSE Received(Heard(r))

\* handshake(): the first Initialize exchange
Handshake ==
    /\ pc = "handshake"
    /\ \/ \E e \in WriteErrors :
            /\ pc' = "handshake2"
            /\ hidMode' = RetryMode
            /\ initReply' = "threw"
            /\ Fault
            /\ UNCHANGED inflight
       \/ \E r \in DeviceAnswers(dev, Answered("Initialize")) :
            /\ inflight' = Tail(Queued("Initialize"))
            /\ initReply' = InitReply(r)
            /\ IF /\ ~WriteRejected(r)
                  /\ variant = "adapter" \/ Received(Heard(r)) = "Features"
               THEN pc' = "pkloop" /\ UNCHANGED hidMode
               ELSE pc' = "handshake2" /\ hidMode' = RetryMode
            /\ UNCHANGED faults
    /\ UNCHANGED <<cfgVars, attempt, err, outVars, presVars, guard, keyVars,
                   isHid, klass, handleVars, passVars, turn, wireVars>>

\* handshake(): the one retry of Initialize, in the catch block
HandshakeRetry ==
    /\ pc = "handshake2"
    /\ \/ \E e \in WriteErrors :
            /\ Raise(e)
            /\ initReply' = "none"
            /\ Fault
            /\ UNCHANGED inflight
       \/ \E r \in DeviceAnswers(dev, Answered("Initialize")) :
            /\ inflight' = Tail(Queued("Initialize"))
            /\ IF WriteRejected(r)
               THEN Raise("ReadFailed") /\ initReply' = "none"
               ELSE IF Received(Heard(r)) = "timeout"
               THEN Raise("ReceiveTimeout") /\ initReply' = "none"
               ELSE /\ pc' = "pkloop"
                    /\ initReply' = InitReply(r)
                    /\ UNCHANGED err
            /\ UNCHANGED faults
    /\ UNCHANGED <<cfgVars, attempt, outVars, presVars, guard, keyVars,
                   modeVars, handleVars, passVars, turn, wireVars>>

AdapterLoopCap == 6
ProtocolLoopCap == 10

\* a request loop that tests guard++ <= cap
LoopCapOffByOne ==
    IF variant = "adapter" THEN AdapterLoopCap + 1 ELSE ProtocolLoopCap + 1

\* the bound of the request loop: while (guard++ < cap ...)
LoopCap == IF variant = "adapter" THEN AdapterLoopCap ELSE ProtocolLoopCap

\* the error thrown when the loop ends without a key
LoopExhaustedError ==
    IF variant = "adapter" THEN "EmptyPublicKey" ELSE "LoopExhausted"

\* a provider that is taken for configured whatever was handed over
PassphraseAlwaysWired == TRUE

\* does the bridge go on to prompt for the passphrase?
PassphraseWired == provider # "none"

\* key bytes the bridge reads from a response that is not a prompt or a
\* failure; << >> when it reads none
DecodedKey(r, key, featureBytes) ==
    IF r = "SolanaPublicKey" THEN key
    ELSE IF r = "Features" /\ variant = "adapter" THEN featureBytes
    ELSE << >>

\* a write that answers every response
AckForAny(seen) == "ButtonAck"

\* a ButtonRequest left without an answer
AckForNone(seen) == "none"

\* what a turn of the request loop writes once it has dispatched on the
\* response: sendOnly(BUTTON_ACK, new Uint8Array()) / sendMessage('ButtonAck',
\* {}) for a ButtonRequest, nothing for the responses it skips
AckFor(seen) == IF seen = "ButtonRequest" THEN "ButtonAck" ELSE "none"

\* the requests still to be answered after the turn's write, if it made one
AfterTurn(q, seen) ==
    IF AckFor(seen) = "none" THEN q ELSE AfterAck(q, AckFor(seen))

\* one turn of the request loop: send SolanaGetPublicKey, receive, dispatch
RequestPublicKey ==
    /\ pc = "pkloop"
    /\ initReply' = "none"
    /\ IF guard < LoopCap
       THEN /\ guard' = guard + 1
            /\ \/ \E e \in WriteErrors :
                    /\ Raise(e)
                    /\ Fault
                    /\ turn' = NoTurn
                    /\ UNCHANGED <<inflight, keyVars>>
               \/ \E r \in DeviceAnswers(dev, Answered("SolanaGetPublicKey")),
                     key \in Keys, fb \in {<< >>, VendorBytes} :
                    LET rest == Tail(Queued("SolanaGetPublicKey"))
                        seen == Received(Heard(r))
                    IN  CASE WriteRejected(r) ->
                               /\ Raise("ReadFailed")
                               /\ inflight' = rest
                               /\ turn' = NoTurn
                               /\ UNCHANGED <<keyVars, faults>>
                          [] ~WriteRejected(r) /\ seen = "timeout" ->
                               /\ Raise("ReceiveTimeout")
                               /\ inflight' = rest
                               /\ turn' = NoTurn
                               /\ UNCHANGED <<keyVars, faults>>
                          [] ~WriteRejected(r) /\ seen = "type0" ->
                               /\ inflight' = AfterTurn(rest, seen)
                               /\ turn' = [seen |-> seen, sent |-> AckFor(seen)]
                               /\ UNCHANGED <<pc, err, keyVars, faults>>
                          [] ~WriteRejected(r) /\ seen = "PassphraseRequest" ->
                               /\ inflight' = rest
                               /\ turn' = [seen |-> seen, sent |-> "none"]
                               /\ IF PassphraseWired
                                  THEN pc' = "passphrase" /\ UNCHANGED err
                                  ELSE Raise("PassphraseNoUi")
                               /\ UNCHANGED <<keyVars, faults>>
                          [] ~WriteRejected(r) /\ seen = "ButtonRequest" ->
                               \/ /\ inflight' = AfterTurn(rest, seen)
                                  /\ turn' = [seen |-> seen,
                                              sent |-> AckFor(seen)]
                                  /\ UNCHANGED <<pc, err, keyVars, faults>>
                               \/ \E e \in WriteErrors :
                                    /\ Raise(e)
                                    /\ Fault
                                    /\ inflight' = rest
                                    /\ turn' = [seen |-> seen, sent |-> "none"]
                                    /\ UNCHANGED keyVars
                          [] ~WriteRejected(r) /\ seen = "Failure" ->
                               /\ Raise("DeviceFailure")
                               /\ inflight' = rest
                               /\ turn' = [seen |-> seen, sent |-> "none"]
                               /\ UNCHANGED <<keyVars, faults>>
                          [] OTHER ->
                               /\ inflight' = AfterTurn(rest, seen)
                               /\ turn' = [seen |-> seen, sent |-> AckFor(seen)]
                               /\ keyBytes' = DecodedKey(seen, key, fb)
                               /\ devKey' = IF seen = "SolanaPublicKey"
                                             THEN key ELSE devKey
                               /\ pc' = IF Len(DecodedKey(seen, key, fb)) > 0
                                        THEN "closeok" ELSE pc
                               /\ UNCHANGED <<err, faults>>
       ELSE /\ Raise(LoopExhaustedError)
            /\ turn' = NoTurn
            /\ UNCHANGED <<guard, inflight, keyVars, faults>>
    /\ UNCHANGED <<cfgVars, attempt, outVars, presVars, modeVars, handleVars,
                   passVars, wireVars>>

\* a null check that is missing
NeverCancelled(pw) == FALSE

\* pw == null
Cancelled(pw) == pw = "null"

\* await this.getPassphrase(), then the PassphraseAck
ServicePassphrase ==
    /\ pc = "passphrase"
    /\ turn' = NoTurn
    /\ \E pw \in PassValues :
         /\ passValue' = pw
         /\ passCalls' = Counted(passCalls)
         /\ IF Cancelled(pw)
            THEN /\ Raise("PassphraseCancelled")
                 /\ UNCHANGED <<acks, ackValue, inflight, faults>>
            ELSE \/ /\ acks' = Counted(acks)
                    /\ ackValue' = pw
                    /\ inflight' = AfterAck(inflight, "PassphraseAck")
                    /\ pc' = "pkloop"
                    /\ UNCHANGED <<err, faults>>
                 \/ \E e \in WriteErrors :
                      /\ Raise(e)
                      /\ Fault
                      /\ UNCHANGED <<acks, ackValue, inflight>>
    /\ UNCHANGED <<cfgVars, attempt, outVars, presVars, guard, keyVars,
                   modeVars, handleVars, initReply, wireVars>>

\* a close that is skipped
CloseHandleSkipped(ok) == UNCHANGED handleVars

\* TrezorUSB.close(): the native close releases the connection, or throws
\* and leaves it as it is
CloseHandle(ok) ==
    /\ connection' = IF ok THEN FALSE ELSE connection
    /\ jsOpen' = FALSE
    /\ closeFailed' = ~ok

\* the success path: close, then return the base58 key
CloseAndReturn ==
    /\ pc = "closeok"
    /\ turn' = NoTurn
    /\ \/ /\ CloseHandle(TRUE)
          /\ result' = toBase58(keyBytes)
          /\ pc' = "returned"
          /\ UNCHANGED <<err, faults>>
       \/ \E e \in CloseErrors :
            /\ CloseHandle(FALSE)
            /\ Raise(e)
            /\ Fault
            /\ UNCHANGED result
    /\ UNCHANGED <<cfgVars, attempt, lastErr, thrown, delays, presVars, guard,
                   keyVars, modeVars, inflight, passVars, initReply, wireVars>>

RECURSIVE Pow2(_)
Pow2(n) == IF n = 0 THEN 1 ELSE 2 * Pow2(n - 1)

\* a delay computed without the cap
BackoffDelayUncapped(k) ==
    IF opts.backoff = "exponential"
    THEN opts.attemptDelayMs * Pow2(k - 1)
    ELSE opts.attemptDelayMs * k

\* the delay before the attempt after attempt k
BackoffDelay(k) ==
    IF opts.backoff = "exponential"
    THEN Min(opts.attemptDelayMs * Pow2(k - 1), opts.maxDelayMs)
    ELSE Min(opts.attemptDelayMs * k, opts.maxDelayMs)

\* a catch block that retries whatever the classification
AlwaysRetryable(e) == TRUE

\* cls.retryable of the caught error
Retryable(e) == classifyTrezorError(ErrorText(e)).retryable

\* attempt < maxAttempts
AttemptsRemain == attempt < opts.maxAttempts

\* the catch block: record, classify, close, then break, back off or go on
CatchAttempt ==
    /\ pc = "catch"
    /\ turn' = NoTurn
    /\ lastErr' = err
    /\ err' = "none"
    /\ \E ok \in {TRUE} \cup {~connection} :
         /\ CloseHandle(ok)
         /\ IF ok THEN UNCHANGED faults ELSE Fault
    /\ IF ~Retryable(err)
       THEN /\ thrown' = err
            /\ pc' = "thrown"
            /\ UNCHANGED <<attempt, delays>>
       ELSE IF AttemptsRemain
       THEN /\ delays' = Append(delays, BackoffDelay(attempt))
            /\ pc' = "backoff"
            /\ UNCHANGED <<attempt, thrown>>
       ELSE /\ attempt' = attempt + 1
            /\ pc' = "loop"
            /\ UNCHANGED <<delays, thrown>>
    /\ guard' = 0
    /\ keyBytes' = << >>
    /\ inflight' = << >>
    /\ UNCHANGED <<cfgVars, result, presVars, devKey, modeVars, passVars,
                   initReply, wireVars>>

\* the backoff sleep ends: attempt++
Backoff ==
    /\ pc = "backoff"
    /\ attempt' = attempt + 1
    /\ pc' = "loop"
    /\ UNCHANGED <<cfgVars, err, outVars, presVars, guard, keyVars, modeVars,
                   handleVars, inflight, passVars, faults, initReply, turn, wireVars>>

Init == InitConnect /\ WireIdle /\ FnIdle

Next ==
    \/ Prepare
    \/ ExitLoop
    \/ BeginAttempt
    \/ WaitForDevicePresence
    \/ ListDevices
    \/ EnsurePermission
    \/ OpenDevice
    \/ DetermineTransport
    \/ Handshake
    \/ HandshakeRetry
    \/ RequestPublicKey
    \/ ServicePassphrase
    \/ CloseAndReturn
    \/ CatchAttempt
    \/ Backoff

Spec == Init /\ [][Next]_vars

\* the event loop runs what is ready: the promise of TrezorUSB.list() settles
\* and the timer of simulateDelay fires, so a pending turn of the presence
\* wait is taken
FairSpec == Spec /\ WF_vars(WaitForDevicePresence)

-----------------------------------------------------------------------------
(* Frame codec harness: the specification *)

InitWire ==
    /\ ConnIdle
    /\ FnIdle
    /\ wirePhase = "input"
    /\ wireType \in TypeIds
    /\ \E len \in PayloadLens, seed \in 0..MaxSeed :
          wirePayload = PatternPayload(len, seed)
    /\ wireFrames = << >>
    /\ wireDecoded = NoMessage

WireEncode ==
    /\ wirePhase = "input"
    /\ wireFrames' = encodeFrame(wireType, wirePayload)
    /\ wirePhase' = "encoded"
    /\ UNCHANGED <<wireType, wirePayload, wireDecoded, fnVars, connVars>>

WireDecode ==
    /\ wirePhase = "encoded"
    /\ wireDecoded' = decodeFrames(wireFrames)
    /\ wirePhase' = "decoded"
    /\ UNCHANGED <<wireType, wirePayload, wireFrames, fnVars, connVars>>

NextWire == WireEncode \/ WireDecode

SpecWire == InitWire /\ [][NextWire]_vars

-----------------------------------------------------------------------------
(* Error classifier harness: classifyTrezorError applied to sampled messages *)

\* the phrases of each classification, as errors.ts lists them ("aborted" is
\* the word a message carries around the listed "abort")
PhrasesOf(code) ==
    CASE code = "PERMISSION_DENIED" ->
        {<<"p","e","r","m","i","s","s","i","o","n">>,
         <<"n","o","t"," ","g","r","a","n","t","e","d">>,
         <<"d","e","n","i","e","d">>}
      [] code = "DEVICE_NOT_FOUND" ->
        {<<"n","o"," ","d","e","v","i","c","e">>,
         <<"d","e","v","i","c","e"," ","n","o","t"," ","f","o","u","n","d">>,
         <<"d","i","s","c","o","n","n","e","c","t","e","d">>}
      [] code = "DEVICE_BUSY" ->
        {<<"b","u","s","y">>,
         <<"i","n"," ","u","s","e">>}
      [] code = "CANCELLED" ->
        {<<"c","a","n","c","e","l","l","e","d">>,
         <<"c","a","n","c","e","l","e","d">>,
         <<"a","b","o","r","t">>,
         <<"a","b","o","r","t","e","d">>}
      [] code = "TRANSPORT" ->
        {<<"t","r","a","n","s","p","o","r","t">>,
         <<"u","s","b">>,
         <<"h","i","d">>,
         <<"t","i","m","e","o","u","t">>}

PhraseCodes ==
    {"PERMISSION_DENIED", "DEVICE_NOT_FOUND", "DEVICE_BUSY", "CANCELLED", "TRANSPORT"}

\* messages that carry no phrase of the classifier: the empty message,
\* 'Failed to open device' and 'Empty public key payload'
PlainMessages ==
    {<< >>, ErrorText("OpenFailed"), ErrorText("EmptyPublicKey")}

\* the letter case a message arrives in
Casings == {"lower", "upper", "capital"}

toUpperCase(s) ==
    [i \in 1..Len(s) |->
        IF \E k \in 1..26 : LowerChars[k] = s[i]
        THEN UpperChars[CHOOSE k \in 1..26 : LowerChars[k] = s[i]]
        ELSE s[i]]

Cased(s, casing) ==
    CASE casing = "lower" -> s
      [] casing = "upper" -> toUpperCase(s)
      [] casing = "capital" ->
            IF s = << >> THEN s ELSE toUpperCase(<<Head(s)>>) \o Tail(s)

\* what surrounds the phrase in the message: nothing, 'Error: ' before it,
\* ' (-1)' after it
Contexts == {"bare", "prefixed", "suffixed"}

Framed(s, context) ==
    CASE context = "bare" -> s
      [] context = "prefixed" -> <<"E","r","r","o","r",":"," ">> \o s
      [] context = "suffixed" -> s \o <<" ","(","-","1",")">>

ClassifierInputs ==
    UNION {{[text |-> Framed(Cased(p, casing), context), group |-> code] :
                p \in PhrasesOf(code), casing \in Casings, context \in Contexts} :
            code \in PhraseCodes}
    \cup {[text |-> Framed(p, context), group |-> "UNKNOWN"] :
            p \in PlainMessages, context \in Contexts}

InitClassify ==
    /\ ConnIdle
    /\ WireIdle
    /\ fnPhase = "input"
    /\ fnInput \in ClassifierInputs
    /\ fnOutput = NoOutput

Classify ==
    /\ fnPhase = "input"
    /\ fnOutput' = classifyTrezorError(fnInput.text)
    /\ fnPhase' = "applied"
    /\ UNCHANGED <<fnInput, wirePhase, wireType, wirePayload, wireFrames,
                   wireDecoded, connVars>>

NextClassify == Classify

SpecClassify == InitClassify /\ [][NextClassify]_vars

\* messages that carry the phrases of two classifications, one after the
\* other and in either order, and messages that carry one or none
MixedInputs ==
    UNION {{[text |-> Cased(p \o <<" ">> \o q, casing), groups |-> {a, b}] :
                p \in PhrasesOf(a), q \in PhrasesOf(b), casing \in Casings} :
            <<a, b>> \in {ab \in PhraseCodes \X PhraseCodes : ab[1] # ab[2]}}
    \cup {[text |-> i.text,
           groups |-> IF i.group = "UNKNOWN" THEN {} ELSE {i.group}] :
            i \in ClassifierInputs}

InitClassifyMixed ==
    /\ ConnIdle
    /\ WireIdle
    /\ fnPhase = "input"
    /\ fnInput \in MixedInputs
    /\ fnOutput = NoOutput

SpecClassifyMixed == InitClassifyMixed /\ [][NextClassify]_vars

-----------------------------------------------------------------------------
(* Decoder harness: decodeFrames applied to sampled chunks *)

\* lengths of the byte strings without a header: empty, shorter than a
\* header, a header's length, a report, more than a report
RawLens == {0, 1, 7, 8, 9, 64, 65, 128}

\* payload lengths of the encoded messages handed to the decoder
EncodedLens == {0, 10, 56}

\* bytes as the chunks that the reads of the transport deliver: at most
\* REPORT_SIZE bytes each, unpadded
Delivered(data) ==
    [i \in 1..((Len(data) + REPORT_SIZE - 1) \div REPORT_SIZE) |->
        subarray(data, (i - 1) * REPORT_SIZE, i * REPORT_SIZE)]

\* "raw": bytes that start with neither '?##' nor '?#' (the pattern bytes,
\* and an encoded first frame behind the zero report id of a HID stack);
\* "encoded": the frames encodeFrame returns
DecoderInputs ==
    {[kind |-> "raw", msgType |-> 0, frames |-> Delivered(PatternPayload(len, seed))] :
        len \in RawLens, seed \in 0..MaxSeed}
    \cup {[kind |-> "raw", msgType |-> t,
           frames |-> <<<<0>> \o encodeFrame(t, PatternPayload(10, seed))[1]>>] :
            t \in TypeIds, seed \in 0..MaxSeed}
    \cup {[kind |-> "encoded", msgType |-> t,
           frames |-> encodeFrame(t, PatternPayload(len, seed))] :
            t \in TypeIds, len \in EncodedLens, seed \in 0..MaxSeed}

InitDecode ==
    /\ ConnIdle
    /\ WireIdle
    /\ fnPhase = "input"
    /\ fnInput \in DecoderInputs
    /\ fnOutput = NoOutput

Decode ==
    /\ fnPhase = "input"
    /\ fnOutput' = decodeFrames(fnInput.frames)
    /\ fnPhase' = "applied"
    /\ UNCHANGED <<fnInput, wirePhase, wireType, wirePayload, wireFrames,
                   wireDecoded, connVars>>

NextDecode == Decode

SpecDecode == InitDecode /\ [][NextDecode]_vars

-----------------------------------------------------------------------------
(* Receive harness: a response read behind an optional leading zero byte,   *)
(* decoded by decodeFrames and by the receive half of sendAndReceive        *)

\* @trezor/protocol v1.decode, as the two builds have it: the package throws
\* on bytes that do not start with '?##', the test double answers them with
\* message type 0 and length 0
ProtocolLibs == {"package", "double"}

protocolV1Decode(buf, lib) ==
    IF Len(buf) >= 9 /\ buf[1] = 63 /\ buf[2] = 35 /\ buf[3] = 35
    THEN [threw |-> FALSE, messageType |-> buf[4] * 256 + buf[5],
          length |-> U32(buf[6], buf[7], buf[8], buf[9])]
    ELSE IF lib = "double"
    THEN [threw |-> FALSE, messageType |-> 0, length |-> 0]
    ELSE [threw |-> TRUE]

\* if (buf.length >= 1 && buf[0] === 0x00) buf = buf.subarray(1)
skipLeadingZero(buf) ==
    IF Len(buf) >= 1 /\ buf[1] = 0 THEN subarray(buf, 1, Len(buf)) ELSE buf

\* tryParseHeader of transportAdapter.ts: the library's decode first, then
\* the header parsed by hand behind an optional zero byte; headerLen is 9 in
\* both results
tryParseHeaderAdapter(buf, lib) ==
    LET d == protocolV1Decode(buf, lib)
        b == skipLeadingZero(buf)
    IN  IF ~d.threw
        THEN [found |-> TRUE, msgType |-> d.messageType,
              payloadLen |-> d.length, headerLen |-> 9]
        ELSE IF Len(b) >= 9 /\ b[1] = 63 /\ b[2] = 35 /\ b[3] = 35
        THEN [found |-> TRUE, msgType |-> b[4] * 256 + b[5],
              payloadLen |-> U32(b[6], b[7], b[8], b[9]), headerLen |-> 9]
        ELSE NoHeader

\* a read that rejects (READ_FAIL, a timeout of the native exchange), as an
\* element of the sequence of reads: no byte has this value
Rejected == <<256>>

\* a catch block that swallows nothing
CaughtNever(part) == FALSE

\* the try/catch around the read of sendAndReceive and of receiveMessage: a
\* rejected read is swallowed and the polling goes on
Caught(part) == part = Rejected

\* the parts pushed to `received` by the first n reads
RECURSIVE receivedParts(_, _)
receivedParts(chunks, n) ==
    IF n = 0 THEN << >>
    ELSE receivedParts(chunks, n - 1)
            \o (IF Caught(chunks[n]) \/ Len(chunks[n]) = 0
                THEN << >> ELSE <<chunks[n]>>)

\* the receive half of sendAndReceive: the chunks are merged as they are
\* read, the header is parsed once, the payload is cut from the merged bytes
\* at header.headerLen; when the reads run out before the payload is whole
\* (the deadline passes), what has arrived is returned
RECURSIVE sendAndReceiveRead(_, _, _, _)
sendAndReceiveRead(chunks, n, header, lib) ==
    IF n > Len(chunks)
    THEN LET merged == concat(receivedParts(chunks, Len(chunks)))
             h      == tryParseHeaderAdapter(merged, lib)
         IN  IF h.found
             THEN [msgType |-> h.msgType,
                   payload |-> subarray(merged, h.headerLen,
                                  h.headerLen + Min(h.payloadLen,
                                      Max(0, Len(merged) - h.headerLen)))]
             ELSE [msgType |-> 0, payload |-> merged]
    ELSE IF Caught(chunks[n]) \/ Len(chunks[n]) = 0
    THEN sendAndReceiveRead(chunks, n + 1, header, lib)
    ELSE LET merged == concat(receivedParts(chunks, n))
             hd     == IF header.found THEN header
                       ELSE tryParseHeaderAdapter(merged, lib)
         IN  IF /\ hd.found
                /\ Max(0, Len(merged) - hd.headerLen) >= hd.payloadLen
             THEN [msgType |-> hd.msgType,
                   payload |-> subarray(merged, hd.headerLen,
                                        hd.headerLen + hd.payloadLen)]
             ELSE sendAndReceiveRead(chunks, n + 1, hd, lib)

\* payload lengths of messages that fit one frame
OneFrameLens == {0, 1, 10, 55}

\* the bytes a HID stack hands over for a report: the report, or the report
\* behind its zero report id
Reported(frame, lead) == IF lead THEN <<0>> \o frame ELSE frame

ReceiveInputs ==
    {[msgType |-> t, payload |-> PatternPayload(len, seed), lead |-> lead,
      lib |-> lib,
      chunks |-> <<Reported(encodeFrame(t, PatternPayload(len, seed))[1], lead)>>] :
        t \in TypeIds, len \in OneFrameLens, seed \in 0..MaxSeed,
        lead \in BOOLEAN, lib \in ProtocolLibs}

InitReceive ==
    /\ ConnIdle
    /\ WireIdle
    /\ fnPhase = "input"
    /\ fnInput \in ReceiveInputs
    /\ fnOutput = NoOutput

Receive ==
    /\ fnPhase = "input"
    /\ fnOutput' = [decoded  |-> decodeFrames(fnInput.chunks),
                    received |-> sendAndReceiveRead(fnInput.chunks, 1, NoHeader,
                                                    fnInput.lib)]
    /\ fnPhase' = "applied"
    /\ UNCHANGED <<fnInput, wirePhase, wireType, wirePayload, wireFrames,
                   wireDecoded, connVars>>

NextReceive == Receive

SpecReceive == InitReceive /\ [][NextReceive]_vars

-----------------------------------------------------------------------------
(* Reassembly harness: the reads of one response, whole, interrupted by     *)
(* rejected reads, or cut short, handed to the receive half of             *)
(* sendAndReceive (transportAdapter.ts and wire.ts) and to receiveMessage   *)

\* what the reads do once the device has nothing more to send: the test
\* doubles resolve with no bytes, the native exchange rejects
Tails == {"empty", "rejects"}

Threw == [threw |-> TRUE, msgType |-> 0, payload |-> << >>]

\* the receive half of wire.ts's sendAndReceive: up to maxFrames reads, none
\* of them in a try; the payload is cut from the concatenated reads
RECURSIVE sendAndReceiveWire(_, _, _, _)
sendAndReceiveWire(reads, n, header, tail) ==
    IF n > Len(reads)
    THEN IF tail = "rejects" THEN Threw
         ELSE LET full == concat(reads) IN
              IF ~header.found
              THEN [threw |-> FALSE, msgType |-> 0, payload |-> full]
              ELSE [threw |-> FALSE, msgType |-> header.msgType,
                    payload |-> subarray(full, header.headerLen,
                                   header.headerLen + header.payloadLen)]
    ELSE IF reads[n] = Rejected THEN Threw
    ELSE LET merged == concat(SubSeq(reads, 1, n))
             hd     == IF header.found THEN header ELSE tryParseHeader(merged)
         IN  IF /\ hd.found
                /\ Max(0, Len(merged) - hd.headerLen) >= hd.payloadLen
             THEN [threw |-> FALSE, msgType |-> hd.msgType,
                   payload |-> subarray(merged, hd.headerLen,
                                        hd.headerLen + hd.payloadLen)]
             ELSE sendAndReceiveWire(reads, n + 1, hd, tail)

\* receiveMessage of the protocol variant, up to the library's decoder: the
\* parts are appended to receivedBuffer, which is decoded after every part;
\* a read that rejects and a decode that throws are swallowed; when the reads
\* run out it throws 'Message receive timeout'
RECURSIVE receiveMessageRead(_, _, _)
receiveMessageRead(reads, n, lib) ==
    IF n > Len(reads) THEN [threw |-> TRUE, messageType |-> 0, length |-> 0]
    ELSE IF Caught(reads[n]) \/ Len(reads[n]) = 0
    THEN receiveMessageRead(reads, n + 1, lib)
    ELSE LET decoded == protocolV1Decode(concat(receivedParts(reads, n)), lib)
         IN  IF decoded.threw THEN receiveMessageRead(reads, n + 1, lib)
             ELSE decoded

\* payload lengths of the responses: one frame, two frames with one byte in
\* the second, three frames with one byte in the third, three frames
ResponseLens == {10, 56, 115, 120}

\* the reads that deliver frames, each behind a read that rejects
RECURSIVE Interrupted(_)
Interrupted(frames) ==
    IF frames = << >> THEN << >>
    ELSE <<Rejected, Head(frames)>> \o Interrupted(Tail(frames))

\* the reads of a device that stops early: the last frame never comes, and of
\* a single frame only the header and three bytes
CutShort(frames) ==
    IF Len(frames) > 1 THEN SubSeq(frames, 1, Len(frames) - 1)
    ELSE <<subarray(frames[1], 0, 12)>>

Shapes == {"whole", "interrupted", "cut"}

Shaped(frames, shape) ==
    CASE shape = "whole" -> frames
      [] shape = "interrupted" -> Interrupted(frames)
      [] shape = "cut" -> CutShort(frames)

ReassembleInputs ==
    {[msgType |-> t, payload |-> PatternPayload(len, seed), shape |-> shape,
      lib |-> lib, tail |-> tail,
      reads |-> Shaped(encodeFrame(t, PatternPayload(len, seed)), shape)] :
        t \in TypeIds \ {0}, len \in ResponseLens, seed \in 0..MaxSeed,
        shape \in Shapes, lib \in ProtocolLibs, tail \in Tails}

InitReassemble ==
    /\ ConnIdle
    /\ WireIdle
    /\ fnPhase = "input"
    /\ fnInput \in ReassembleInputs
    /\ fnOutput = NoOutput

Reassemble ==
    /\ fnPhase = "input"
    /\ fnOutput' =
          [adapter |-> sendAndReceiveRead(fnInput.reads, 1, NoHeader, fnInput.lib),
           wire    |-> sendAndReceiveWire(fnInput.reads, 1, NoHeader, fnInput.tail),
           message |-> receiveMessageRead(fnInput.reads, 1, fnInput.lib)]
    /\ fnPhase' = "applied"
    /\ UNCHANGED <<fnInput, wirePhase, wireType, wirePayload, wireFrames,
                   wireDecoded, connVars>>

NextReassemble == Reassemble

SpecReassemble == InitReassemble /\ [][NextReassemble]_vars

-----------------------------------------------------------------------------
(* The message catalog: ensureMessageDefinitionsLoaded (asynchronous, with  *)
(* an await between the test of the flag and its assignment) and loadRoot   *)
(* (synchronous), called from several code paths                            *)

\* ensureMessageDefinitionsLoaded up to its await: return when the flag is
\* set or the descriptor has no messages package, else call loadDefinitions
EnsureBegin(c) ==
    /\ loadPc[c] = "idle"
    /\ IF messageDefinitionsLoaded
       THEN loadPc' = [loadPc EXCEPT ![c] = "returned"]
       ELSE \E messagesPkg \in BOOLEAN :
              loadPc' = [loadPc EXCEPT ![c] =
                            IF messagesPkg THEN "loading" ELSE "returned"]
    /\ UNCHANGED <<messageDefinitionsLoaded, definitionLoads, root, rootLoads,
                   wireVars, callVars, appVars, hookVars>>

\* the await resolves (definitions loaded, flag set) or rejects (rethrown)
EnsureEnd(c) ==
    /\ loadPc[c] = "loading"
    /\ \/ /\ definitionLoads' = definitionLoads + 1
          /\ messageDefinitionsLoaded' = TRUE
          /\ loadPc' = [loadPc EXCEPT ![c] = "returned"]
       \/ /\ loadPc' = [loadPc EXCEPT ![c] = "threw"]
          /\ UNCHANGED <<definitionLoads, messageDefinitionsLoaded>>
    /\ UNCHANGED <<root, rootLoads, wireVars, callVars, appVars, hookVars>>

\* the caller's next sendMessage
CallAgain(c) ==
    /\ loadPc[c] \in {"returned", "threw"}
    /\ loadPc' = [loadPc EXCEPT ![c] = "idle"]
    /\ UNCHANGED <<messageDefinitionsLoaded, definitionLoads, root, rootLoads,
                   wireVars, callVars, appVars, hookVars>>

\* loadRoot: one synchronous step; both of its branches assign root
LoadRoot(c) ==
    /\ loadPc[c] = "idle"
    /\ IF root # "null"
       THEN UNCHANGED <<root, rootLoads>>
       ELSE /\ root' \in {"descriptor", "fallback"}
            /\ rootLoads' = rootLoads + 1
    /\ UNCHANGED <<messageDefinitionsLoaded, loadPc, definitionLoads,
                   wireVars, callVars, appVars, hookVars>>

InitLoad == ConnIdle /\ WireIdle /\ FnIdle

NextLoad ==
    \E c \in Callers :
        \/ EnsureBegin(c)
        \/ EnsureEnd(c)
        \/ CallAgain(c)
        \/ LoadRoot(c)

SpecLoad == InitLoad /\ [][NextLoad]_vars

-----------------------------------------------------------------------------
(* App.tsx: start() on the one TrezorBridge the component keeps in useMemo. *)
(* start() is invoked on mount and by the Start, Retry, Slow Retry, Try     *)
(* Again and Refresh buttons; it tests nothing before it runs.              *)

\* what start() tests before it calls the bridge: nothing
StartAllowed == TRUE

\* start(): setPhase('connecting'), then await trezor.connectAndGetPublicKey
StartCall(s) ==
    /\ starts[s] = "none"
    /\ StartAllowed
    /\ phase' = "connecting"
    /\ starts' = [starts EXCEPT ![s] = "connecting"]
    /\ UNCHANGED <<wireVars, callVars, loaderVars, hookVars>>

\* the connect of invocation s returns the key, or throws
ConnectSettles(s) ==
    /\ starts[s] = "connecting"
    /\ \/ /\ phase' = "fetching"
          /\ starts' = [starts EXCEPT ![s] = "fetching"]
       \/ /\ phase' = "error"
          /\ starts' = [starts EXCEPT ![s] = "finished"]
    /\ UNCHANGED <<wireVars, callVars, loaderVars, hookVars>>

\* the RPC calls of invocation s end: setPhase('done') or the catch block
FetchSettles(s) ==
    /\ starts[s] = "fetching"
    /\ phase' \in {"done", "error"}
    /\ starts' = [starts EXCEPT ![s] = "finished"]
    /\ UNCHANGED <<wireVars, callVars, loaderVars, hookVars>>

InitApp == ConnIdle /\ WireIdle /\ FnIdle

NextApp ==
    \E s \in Starts :
        \/ StartCall(s)
        \/ ConnectSettles(s)
        \/ FetchSettles(s)

SpecApp == InitApp /\ [][NextApp]_vars

-----------------------------------------------------------------------------
(* The useTrezor hook and its screen: connect(), the passphrase provider it *)
(* hands to the bridge, submitPassphrase, cancelPassphrase, disconnect      *)

\* what disconnect() does to the connect awaiting the provider: nothing, it
\* only forgets the resolver
LeftOnDisconnect(c) == coPc[c]

\* Connect Trezor, shown while neither connected nor connecting
HookConnect(c) ==
    /\ coPc[c] = "none"
    /\ ~isConnected /\ ~isConnecting
    /\ isConnecting' = TRUE
    /\ isConnected' = FALSE
    /\ coPc' = [coPc EXCEPT ![c] = "running"]
    /\ UNCHANGED <<passphraseRequired, passphraseResolver, wireVars, callVars,
                   loaderVars, appVars>>

\* the bridge of connect c awaits passphraseProvider(): a new promise whose
\* resolve is stored, replacing the resolver stored before
PassphraseProvider(c) ==
    /\ coPc[c] = "running"
    /\ coPc' = [coPc EXCEPT ![c] = "awaiting"]
    /\ passphraseRequired' = TRUE
    /\ passphraseResolver' = c
    /\ UNCHANGED <<isConnecting, isConnected, wireVars, callVars, loaderVars,
                   appVars>>

\* submitPassphrase(value) and cancelPassphrase(), from the modal shown while
\* passphraseRequired: resolve, forget the resolver, hide the modal
SettlePassphrase ==
    /\ passphraseRequired
    /\ IF passphraseResolver # 0
       THEN /\ coPc' = [coPc EXCEPT ![passphraseResolver] = "running"]
            /\ passphraseResolver' = 0
            /\ passphraseRequired' = FALSE
       ELSE UNCHANGED <<coPc, passphraseResolver, passphraseRequired>>
    /\ UNCHANGED <<isConnecting, isConnected, wireVars, callVars, loaderVars,
                   appVars>>

\* Disconnect, shown while connected or connecting: the state is reset and
\* the resolver dropped
HookDisconnect ==
    /\ isConnected \/ isConnecting
    /\ isConnecting' = FALSE
    /\ isConnected' = FALSE
    /\ passphraseRequired' = FALSE
    /\ passphraseResolver' = 0
    /\ coPc' = [c \in Connects |-> LeftOnDisconnect(c)]
    /\ UNCHANGED <<wireVars, callVars, loaderVars, appVars>>

\* connectAndGetPublicKey of connect c returns or throws
HookConnectSettles(c) ==
    /\ coPc[c] = "running"
    /\ coPc' = [coPc EXCEPT ![c] = "finished"]
    /\ isConnecting' = FALSE
    /\ isConnected' \in BOOLEAN
    /\ UNCHANGED <<passphraseRequired, passphraseResolver, wireVars, callVars,
                   loaderVars, appVars>>

InitHook == ConnIdle /\ WireIdle /\ FnIdle

NextHook ==
    \/ \E c \in Connects :
          \/ HookConnect(c)
          \/ PassphraseProvider(c)
          \/ HookConnectSettles(c)
    \/ SettlePassphrase
    \/ HookDisconnect

SpecHook == InitHook /\ [][NextHook]_vars

-----------------------------------------------------------------------------
(* The passphrase on its way to the device and what is logged on that way:  *)
(* the request loop's passphrase turn (adapter variant), sendOnly, the       *)
(* native exchange with its debug log, and the app's pullNativeLogs.  A     *)
(* passphrase is the sequence of its UTF-8 bytes; log lines are records.    *)

PASSPHRASE_ACK == 42

\* the bytes a passphrase is written with, and its greatest length
PassBytes == {97, 98}
MaxPassLen == 3
Passphrases == UNION {[1..n -> PassBytes] : n \in 0..MaxPassLen}

\* the length of the native log's preview of a write
PreviewLen == 16

RECURSIVE writeVarint(_)
writeVarint(v) ==
    IF v > 127 THEN <<(v % 128) + 128>> \o writeVarint(v \div 128)
    ELSE <<v>>

\* PassphraseAck: field 1 (passphrase), field 2 (on_device) = false
encodePassphraseAckHost(passphrase) ==
    <<10>> \o writeVarint(Len(passphrase)) \o passphrase \o <<16, 0>>

\* the lines this.log is called with in the passphrase turn
passphraseTurnLog ==
    <<[line |-> "Passphrase requested; prompting user for host entry"],
      [line |-> "Sending PassphraseAck with host entry"],
      [line |-> "PassphraseAck sent, waiting for device response"]>>

\* TrezorUsbModule.exchange: the two addLog lines of one write
exchangeLog(data) ==
    IF Len(data) > 0
    THEN <<[line |-> "TX", size |-> Len(data),
            preview |-> subarray(data, 0, PreviewLen)],
           [line |-> "Wrote", size |-> Len(data)]>>
    ELSE << >>

RECURSIVE sendOnlyLog(_)
\* sendOnly: one exchange per frame, each leaving its lines in logBuf
sendOnlyLog(frames) ==
    IF frames = << >> THEN << >>
    ELSE exchangeLog(Head(frames)) \o sendOnlyLog(Tail(frames))

\* pullNativeLogs: the native lines appended to the app's logs
pullNativeLogs(logs, native) ==
    IF Len(native) > 0
    THEN logs \o native \o <<[line |-> "Pulled", count |-> Len(native)]>>
    ELSE logs \o <<[line |-> "No native logs available"]>>

\* the frames written and the app's logs after a passphrase turn in which
\* the provider gave pw, and a pull of the native log
PassphraseTurn(pw) ==
    LET frames == encodeFrame(PASSPHRASE_ACK, encodePassphraseAckHost(pw))
    IN  [written |-> frames,
         logs |-> pullNativeLogs(passphraseTurnLog, sendOnlyLog(frames))]

\* two runs of the turn that differ in nothing but the passphrase
InitLog ==
    /\ ConnIdle
    /\ WireIdle
    /\ fnPhase = "input"
    /\ fnInput \in [first : Passphrases, second : Passphrases]
    /\ fnOutput = NoOutput

LogTurn ==
    /\ fnPhase = "input"
    /\ fnOutput' = [first |-> PassphraseTurn(fnInput.first),
                    second |-> PassphraseTurn(fnInput.second)]
    /\ fnPhase' = "applied"
    /\ UNCHANGED <<fnInput, wirePhase, wireType, wirePayload, wireFrames,
                   wireDecoded, connVars>>

NextLog == LogTurn

SpecLog == InitLog /\ [][NextLog]_vars

-----------------------------------------------------------------------------
(* bip32Path: proto.ts and TrezorBridge.ts.  A path is the sequence of its *)
(* characters.  An unsigned 32-bit value is the pair of its top bit and    *)
(* its low 31 bits: hi * 2^31 + lo.                                        *)

DigitChars == <<"0","1","2","3","4","5","6","7","8","9">>

isDigit(c) == \E d \in 1..10 : DigitChars[d] = c

digitValue(c) == (CHOOSE d \in 1..10 : DigitChars[d] = c) - 1

\* String.prototype.trim, for blanks
RECURSIVE trim(_)
trim(s) ==
    IF s # << >> /\ Head(s) = " " THEN trim(Tail(s))
    ELSE IF s # << >> /\ s[Len(s)] = " " THEN trim(SubSeq(s, 1, Len(s) - 1))
    ELSE s

\* s.replace(/^m\//, '')
stripRoot(s) ==
    IF Len(s) >= 2 /\ s[1] = "m" /\ s[2] = "/" THEN SubSeq(s, 3, Len(s)) ELSE s

\* String.prototype.split(sep): the pieces between the separators
RECURSIVE split(_, _)
split(s, sep) ==
    IF \E i \in 1..Len(s) : s[i] = sep
    THEN LET i == CHOOSE j \in 1..Len(s) :
                    s[j] = sep /\ \A k \in 1..(j - 1) : s[k] # sep
         IN  <<SubSeq(s, 1, i - 1)>> \o split(SubSeq(s, i + 1, Len(s)), sep)
    ELSE <<s>>

endsWith(s, c) == s # << >> /\ s[Len(s)] = c

\* s.replace(c, ''): the first c is taken out
replaceFirst(s, c) ==
    IF \E i \in 1..Len(s) : s[i] = c
    THEN LET i == CHOOSE j \in 1..Len(s) :
                    s[j] = c /\ \A k \in 1..(j - 1) : s[k] # c
         IN  SubSeq(s, 1, i - 1) \o SubSeq(s, i + 1, Len(s))
    ELSE s

\* NaN, set apart from the numbers a segment can hold
NaN == 0 - 1

\* parseInt(s, 10) for unsigned text: the leading digits, NaN when none
RECURSIVE parseDigits(_, _)
parseDigits(s, acc) ==
    IF s # << >> /\ isDigit(Head(s))
    THEN parseDigits(Tail(s), acc * 10 + digitValue(Head(s)))
    ELSE acc

parseInt(s) ==
    IF s # << >> /\ isDigit(Head(s)) THEN parseDigits(s, 0) ELSE NaN

\* n >>> 0, for NaN and for 0 <= n < 2^31
ToUint32(n) == IF n = NaN THEN [hi |-> 0, lo |-> 0] ELSE [hi |-> 0, lo |-> n]

\* a hardened segment whose top bit is left clear
orHardenedDropped(n) == ToUint32(n)

\* (n | 0x80000000) >>> 0
orHardened(n) == [hi |-> 1, lo |-> ToUint32(n).lo]

\* proto.ts: bip32Path
bip32PathProto(path) ==
    LET parts == split(stripRoot(trim(path)), "/")
    IN  [i \in 1..Len(parts) |->
            LET p == parts[i]
                hardened == endsWith(p, "'")
                n == parseInt(replaceFirst(p, "'"))
            IN  IF hardened THEN orHardened(n) ELSE ToUint32(n)]

\* TrezorBridge.ts: bip32Path.  A plain segment is returned as parsed.
bip32PathBridge(path) ==
    LET parts == Tail(split(path, "/"))
    IN  [i \in 1..Len(parts) |->
            LET p == parts[i]
                hardened == endsWith(p, "'") \/ endsWith(p, "h")
                num == parseInt(IF hardened THEN SubSeq(p, 1, Len(p) - 1) ELSE p)
            IN  IF hardened THEN orHardened(num)
                ELSE IF num = NaN THEN [hi |-> 0, lo |-> NaN] ELSE ToUint32(num)]

bip32Path(impl, path) ==
    IF impl = "proto" THEN bip32PathProto(path) ELSE bip32PathBridge(path)

-----------------------------------------------------------------------------
(* bip32Path harness: paths written from sampled segments, then parsed *)

\* segments in a sampled path, at most; the wallet's own path has three
MaxSegments == 2

\* indexes sampled from 0 .. 2^31 - 1
Indexes == {0, 1, 44, 501, 2147483647}

Segments == [n : Indexes, hardened : BOOLEAN]

\* Number.prototype.toString for n >= 0
RECURSIVE toDigits(_)
toDigits(n) ==
    IF n < 10 THEN <<DigitChars[n + 1]>>
    ELSE toDigits(n \div 10) \o <<DigitChars[(n % 10) + 1]>>

\* the text of a path: m, then /n or /n' for each segment
RECURSIVE pathText(_)
pathText(segs) ==
    IF segs = << >> THEN <<"m">>
    ELSE pathText(SubSeq(segs, 1, Len(segs) - 1))
            \o <<"/">> \o toDigits(segs[Len(segs)].n)
            \o (IF segs[Len(segs)].hardened THEN <<"'">> ELSE << >>)

\* SOL_DERIVATION_PATH: m/44'/501'/0'
SolanaSegments ==
    <<[n |-> 44, hardened |-> TRUE], [n |-> 501, hardened |-> TRUE],
      [n |-> 0, hardened |-> TRUE]>>

PathInputs ==
    {[impl |-> impl, segments |-> segs, path |-> pathText(segs)] :
        impl \in {"proto", "bridge"},
        segs \in {SolanaSegments}
                 \cup UNION {[1..k -> Segments] : k \in 1..MaxSegments}}

InitPath ==
    /\ ConnIdle
    /\ WireIdle
    /\ fnPhase = "input"
    /\ fnInput \in PathInputs
    /\ fnOutput = NoOutput

ParsePath ==
    /\ fnPhase = "input"
    /\ fnOutput' = bip32Path(fnInput.impl, fnInput.path)
    /\ fnPhase' = "applied"
    /\ UNCHANGED <<fnInput, wirePhase, wireType, wirePayload, wireFrames,
                   wireDecoded, connVars>>

NextPath == ParsePath

SpecPath == InitPath /\ [][NextPath]_vars

-----------------------------------------------------------------------------
(* Message catalog adapter: transportAdapter.ts over @trezor/protobuf.     *)
(* The library looks a message up in the catalog (MESSAGES) and throws     *)
(* when it finds none, or when the data or bytes do not fit the type.      *)

\* type ids of the messages of the wallet's exchange
CatalogTypeId(name) ==
    CASE name = "Initialize" -> 0
      [] name = "Features" -> 17
      [] name = "ButtonAck" -> 27
      [] name = "PassphraseAck" -> 42
      [] name = "SolanaGetPublicKey" -> 900
      [] name = "SolanaPublicKey" -> 901

CoreNames == {"Initialize", "Features", "ButtonAck", "PassphraseAck"}
SolanaNames == {"SolanaGetPublicKey", "SolanaPublicKey"}

\* the catalog with the vendored Solana definitions loaded, the catalog
\* without them (descriptor.json not generated), and an empty catalog
Catalogs == {CoreNames \cup SolanaNames, CoreNames, {}}

\* the bytes of a message: Initialize is empty, any other has a field
MessageBytes(name) == IF name = "Initialize" THEN << >> ELSE <<8, 1>>

\* pbEncodeMessage(MESSAGES, name, data)
pbEncodeMessage(catalog, name, dataFits) ==
    IF name \in catalog /\ dataFits
    THEN [threw |-> FALSE, messageType |-> CatalogTypeId(name),
          message |-> MessageBytes(name)]
    ELSE [threw |-> TRUE]

\* pbDecodeMessage(MESSAGES, msgType, payload)
pbDecodeMessage(catalog, msgType, bytesFit) ==
    IF (\E name \in catalog : CatalogTypeId(name) = msgType) /\ bytesFit
    THEN [threw |-> FALSE,
          type |-> CHOOSE name \in catalog : CatalogTypeId(name) = msgType,
          message |-> "fields"]
    ELSE [threw |-> TRUE]

encodeByName(catalog, name, dataFits) ==
    LET r == pbEncodeMessage(catalog, name, dataFits)
    IN  IF r.threw
        THEN [threw |-> FALSE, msgType |-> 0, payload |-> << >>]
        ELSE [threw |-> FALSE, msgType |-> r.messageType, payload |-> r.message]

\* a decoder that answers a failure with an empty object
decodeToEmptyObject(catalog, msgType, bytesFit) ==
    LET r == pbDecodeMessage(catalog, msgType, bytesFit)
    IN  IF r.threw
        THEN [threw |-> FALSE, isNull |-> FALSE, type |-> "", message |-> "empty"]
        ELSE [threw |-> FALSE, isNull |-> FALSE, type |-> r.type,
              message |-> r.message]

decodeToObject(catalog, msgType, bytesFit) ==
    LET r == pbDecodeMessage(catalog, msgType, bytesFit)
    IN  IF r.threw
        THEN [threw |-> FALSE, isNull |-> TRUE, type |-> "", message |-> "none"]
        ELSE [threw |-> FALSE, isNull |-> FALSE, type |-> r.type,
              message |-> r.message]

-----------------------------------------------------------------------------
(* Catalog adapter harness *)

\* names asked for: the catalog's, and one that no catalog has
AskedNames == CoreNames \cup SolanaNames \cup {"NoSuchMessage"}

\* type ids handed to the decoder: the catalog's, and two of no message
AskedTypeIds == {CatalogTypeId(n) : n \in CoreNames \cup SolanaNames} \cup {3, 9999}

CatalogInputs ==
    {[fn |-> "encodeByName", catalog |-> c, name |-> n, msgType |-> 0, fits |-> f] :
        c \in Catalogs, n \in AskedNames, f \in BOOLEAN}
    \cup {[fn |-> "decodeToObject", catalog |-> c, name |-> "", msgType |-> t, fits |-> f] :
            c \in Catalogs, t \in AskedTypeIds, f \in BOOLEAN}

InitCatalog ==
    /\ ConnIdle
    /\ WireIdle
    /\ fnPhase = "input"
    /\ fnInput \in CatalogInputs
    /\ fnOutput = NoOutput

CallAdapter ==
    /\ fnPhase = "input"
    /\ fnOutput' = IF fnInput.fn = "encodeByName"
                   THEN encodeByName(fnInput.catalog, fnInput.name, fnInput.fits)
                   ELSE decodeToObject(fnInput.catalog, fnInput.msgType, fnInput.fits)
    /\ fnPhase' = "applied"
    /\ UNCHANGED <<fnInput, wirePhase, wireType, wirePayload, wireFrames,
                   wireDecoded, connVars>>

NextCatalog == CallAdapter

SpecCatalog == InitCatalog /\ [][NextCatalog]_vars

-----------------------------------------------------------------------------
(* C1: decodeFrames(encodeFrame(typeId, payload)) returns the original     *)
(* typeId and a byte-identical payload, for every sampled typeId and every *)
(* payload length, including payloads that need continuation frames.       *)
FrameRoundTrip ==
    wirePhase = "decoded" =>
        /\ wireDecoded.msgType = wireType
        /\ wireDecoded.payload = wirePayload

-----------------------------------------------------------------------------
(* Properties of connectAndGetPublicKey *)

\* the classification of an error, by its message
ClassOf(e) == classifyTrezorError(ErrorText(e))

\* the positions between attempts and after the call
BetweenAttempts == {"loop", "backoff", "returned", "thrown"}

PrescribedDelay(k) ==
    IF opts.backoff = "linear"
    THEN Min(opts.attemptDelayMs * k, opts.maxDelayMs)
    ELSE Min(opts.attemptDelayMs * (2 ^ (k - 1)), opts.maxDelayMs)

\* how many backoff sleeps the call has begun: one after each failed attempt
\* that was retryable and not the last
PrescribedSleeps ==
    IF pc = "backoff" THEN attempt
    ELSE IF attempt > opts.maxAttempts THEN Max(opts.maxAttempts - 1, 0)
    ELSE attempt - 1

(* C3: after a failed attempt k that is retryable and not the last, connect *)
(* sleeps min(attemptDelayMs * k, maxDelayMs) (linear) or                   *)
(* min(attemptDelayMs * 2^(k-1), maxDelayMs) (exponential); it sleeps no    *)
(* backoff delay after a success or after the last attempt.                 *)
BackoffDelaysAsPrescribed ==
    /\ pc # "idle" => Len(delays) = PrescribedSleeps
    /\ \A k \in 1..Len(delays) : delays[k] = PrescribedDelay(k)

\* maxAttempts 3, linear, 100 ms: two failures, one of them DEVICE_BUSY, then
\* success, with the delays 100 and 200
BackoffDelaysWitness ==
    /\ pc = "returned"
    /\ opts.maxAttempts = 3
    /\ opts.backoff = "linear"
    /\ opts.attemptDelayMs = 100
    /\ lastErr = "DeviceBusy"
    /\ delays = <<100, 200>>

(* C4: when an attempt fails with an error classified PERMISSION_DENIED or  *)
(* CANCELLED, connect starts no further attempt, sleeps no backoff delay    *)
(* and throws that attempt's error, however many attempts remain.           *)
NonRetryableStops ==
    [][ /\ (pc = "catch" /\ ClassOf(err).code \in {"PERMISSION_DENIED", "CANCELLED"})
            => /\ pc' = "thrown"
               /\ thrown' = err
               /\ delays' = delays
               /\ attempt' = attempt
        /\ pc = "thrown" => pc' = "thrown" ]_vars

\* permission was denied in the first attempt of several, and the call threw
NonRetryableWitness ==
    /\ pc = "thrown"
    /\ thrown = "PermissionDenied"
    /\ attempt = 1
    /\ opts.maxAttempts = MaxAttempts
    /\ delays = << >>

\* the positions inside an attempt
InAttempt ==
    {"presence", "list", "permission", "open", "ifaceinfo", "handshake",
     "handshake2", "pkloop", "passphrase", "closeok", "catch"}

(* C5: connect runs at most maxAttempts attempts, numbered 1..maxAttempts   *)
(* in order; attempt k+1 starts only after attempt k failed with a          *)
(* retryable classification, and no attempt starts after a success.         *)
AttemptsBounded ==
    /\ [](pc \in InAttempt => attempt \in 1..opts.maxAttempts)
    /\ [][ /\ attempt' \in {attempt, attempt + 1}
           /\ attempt' = attempt + 1
                => /\ pc \in {"catch", "backoff"}
                   /\ ClassOf(IF pc = "catch" THEN err ELSE lastErr).retryable
                   /\ result = "none"
           /\ (pc = "loop" /\ pc' \in InAttempt /\ attempt > 1)
                => /\ lastErr # "none"
                   /\ ClassOf(lastErr).retryable
           /\ pc = "returned" => pc' = "returned" ]_vars

\* the last of the attempts allowed is under way
AttemptsBoundedWitness ==
    /\ pc = "handshake"
    /\ attempt = opts.maxAttempts
    /\ attempt = MaxAttempts

(* C6: when all maxAttempts attempts fail with retryable errors, connect    *)
(* throws the error of the last attempt, not an earlier attempt's error and *)
(* not a generic replacement.                                               *)
ExhaustionThrowsLastError ==
    [][ /\ pc = "catch" => lastErr' = err
        /\ (pc # "thrown" /\ pc' = "thrown" /\ attempt' > opts.maxAttempts
            /\ opts.maxAttempts > 0)
             => /\ thrown' = lastErr'
                /\ thrown' # "GenericConnectError"
                /\ thrown' \in ErrorIds ]_vars

\* every attempt failed, the last one on a receive timeout after an earlier
\* sleep
ExhaustionWitness ==
    /\ pc = "thrown"
    /\ attempt > opts.maxAttempts
    /\ opts.maxAttempts = MaxAttempts
    /\ thrown = "ReceiveTimeout"
    /\ Len(delays) = MaxAttempts - 1

(* C7: when the device answers the public-key request with a Failure        *)
(* message, connect surfaces the rejection and never retries it: once an    *)
(* attempt has failed on a Failure message the call has thrown that error.  *)
FailureNeverRetried ==
    lastErr = "DeviceFailure" => (pc = "thrown" /\ thrown = "DeviceFailure")

\* the device of C8: Features, then PassphraseRequest to the key request,
\* then the key to the acknowledgement; the provider is wired and the
\* transport port does not fail
PassphraseScenario ==
    /\ dev = "passphrase"
    /\ provider = "wired"
    /\ faults = 0

(* C8: against a device that answers Initialize with Features, the key      *)
(* request with PassphraseRequest and the acknowledgement with a non-empty  *)
(* public key, connect invokes the passphrase provider exactly once, sends  *)
(* exactly one acknowledgement carrying the provider's value, and returns   *)
(* base58 of the key bytes; it fails only when the provider cancels or the  *)
(* device is not seen.                                                      *)
PassphraseFlow ==
    PassphraseScenario =>
        /\ pc = "returned" =>
             /\ passCalls = 1
             /\ acks = 1
             /\ passValue # "null"
             /\ ackValue = passValue
             /\ Len(devKey) > 0
             /\ result = toBase58(devKey)
        /\ pc = "thrown" =>
             \/ passValue = "null"
             \/ thrown \in {"NoTrezorDeviceFound", "GenericConnectError"}

\* the call returned the key after one prompt and one acknowledgement
PassphraseFlowWitness ==
    /\ PassphraseScenario
    /\ pc = "returned"
    /\ passCalls = 1
    /\ acks = 1
    /\ ackValue = "hunter2"
    /\ devKey = <<0, 200>>
    /\ result = toBase58(<<0, 200>>)

(* C9: when the passphrase provider returns null, the attempt fails without *)
(* sending a passphrase acknowledgement, the failure is classified          *)
(* non-retryable, and connect throws without starting another attempt.      *)
ProviderNullIsFatal ==
    /\ [][ (pc = "passphrase" /\ passValue' = "null")
              => /\ acks' = acks
                 /\ inflight' = inflight
                 /\ pc' = "catch"
                 /\ ~ClassOf(err').retryable ]_vars
    /\ [][ (pc = "catch" /\ passValue = "null" /\ passCalls > 0
            /\ err = "PassphraseCancelled")
              => /\ pc' = "thrown"
                 /\ thrown' = err
                 /\ attempt' = attempt
                 /\ delays' = delays ]_vars

\* the provider cancelled in the first attempt of several, and the call threw
ProviderNullWitness ==
    /\ pc = "thrown"
    /\ thrown = "PassphraseCancelled"
    /\ passValue = "null"
    /\ acks = 0
    /\ attempt = 1
    /\ opts.maxAttempts = MaxAttempts

\* the iteration cap of the request loop, as the code states it
StatedCap == IF variant = "adapter" THEN 6 ELSE 10

\* the attempt failed inside the request loop
FailedInLoop == pc = "catch" /\ guard > 0

PresenceFailureIsDeviceNotFound ==
    (pc = "catch" /\ err = "NoTrezorDeviceFound") =>
        /\ ClassOf(err).code = "DEVICE_NOT_FOUND"
        /\ ClassOf(err).retryable

\* the presence wait of an attempt ended with no device detected
PresenceFailureWitness ==
    /\ pc = "catch"
    /\ err = "NoTrezorDeviceFound"
    /\ elapsed >= PresenceWaitMs
    /\ ~jsOpen

-----------------------------------------------------------------------------
\* the classification the phrase groups are documented to give
DocumentedClass(code) ==
    [code |-> code, retryable |-> code \notin {"PERMISSION_DENIED", "CANCELLED"}]

(* C12: classifyTrezorError maps a message carrying phrases of one group   *)
(* only, in any letter case, to that group's code and retryable flag, and a *)
(* message with none of the phrases (the empty one included) to UNKNOWN,   *)
(* retryable.                                                              *)
ClassifierAsDocumented ==
    fnPhase = "applied" => fnOutput = DocumentedClass(fnInput.group)

\* an upper-case 'ABORTED (-1)' was classified
ClassifierWitness ==
    /\ fnPhase = "applied"
    /\ fnInput.group = "CANCELLED"
    /\ fnInput.text = Framed(toUpperCase(<<"a","b","o","r","t","e","d">>), "suffixed")
    /\ fnOutput.code = "CANCELLED"

-----------------------------------------------------------------------------
(* C13: within an attempt a request is written only when the response to   *)
(* the request written before it has been read: when the request loop is   *)
(* about to write SolanaGetPublicKey, that request is the only one the     *)
(* device has still to answer.                                             *)
OneRequestInFlight ==
    (pc = "pkloop" /\ guard < LoopCap) => Len(Queued("SolanaGetPublicKey")) <= 1

\* a PassphraseAck was written and its response not read when the loop turns
\* to write the next SolanaGetPublicKey
UnreadAckWitness ==
    /\ pc = "pkloop"
    /\ guard < LoopCap
    /\ acks > 0
    /\ inflight = <<"PassphraseAck">>

-----------------------------------------------------------------------------
\* the steps of an attempt, numbered in the order of the code; the retry of
\* Initialize belongs to the handshake, the passphrase prompt to the
\* public-key request
StepRank(p) ==
    CASE p = "presence" -> 1
      [] p = "list" -> 2
      [] p = "permission" -> 3
      [] p = "open" -> 4
      [] p = "ifaceinfo" -> 5
      [] p \in {"handshake", "handshake2"} -> 6
      [] p \in {"pkloop", "passphrase"} -> 7
      [] p = "closeok" -> 8

\* the positions at which the bridge exchanges messages with the device
Exchanging == {"handshake", "handshake2", "pkloop", "passphrase"}

\* one step of an attempt: it stays in its step, moves to the next one, or
\* fails into the catch block
StepMove ==
    /\ (pc \in InAttempt \ {"catch"} /\ pc' # pc) =>
          \/ pc' = "catch"
          \/ pc = "closeok" /\ pc' = "returned"
          \/ pc' \in InAttempt \ {"catch"} /\ StepRank(pc') = StepRank(pc)
          \/ pc' \in InAttempt \ {"catch"} /\ StepRank(pc') = StepRank(pc) + 1
    /\ (pc = "catch" /\ pc' # pc) => pc' \in BetweenAttempts
    /\ (pc = "loop" /\ pc' \in InAttempt) => pc' \in {"presence", "catch"}

-----------------------------------------------------------------------------
(* C15: waitForDevicePresence returns true only when each of the most      *)
(* recent presenceStableCount polls completed and listed a device: a poll  *)
(* that lists none, or whose enumeration fails, ends the streak.           *)
PresenceStreakUnbroken ==
    pc = "list" => streak >= opts.presenceStableCount

\* the wait returned true on a counter that a failed enumeration did not
\* reset
BrokenStreakWitness ==
    /\ pc = "list"
    /\ consecutive >= opts.presenceStableCount
    /\ streak < opts.presenceStableCount

-----------------------------------------------------------------------------
(* C16: waitForDevicePresence always terminates: a presence wait that has  *)
(* begun ends, with true or, once maxWaitMs has elapsed, with false, also  *)
(* when every enumeration fails and when maxWaitMs is 0; it never polls    *)
(* beyond maxWaitMs.                                                       *)
PresenceWaitTerminates ==
    /\ (pc = "presence") ~> (pc # "presence")
    /\ [](pc = "presence" => elapsed < PresenceWaitMs + opts.presencePollMs)

\* a wait with maxWaitMs 0 returned false without a poll
ZeroWaitWitness ==
    /\ pc = "catch"
    /\ err = "NoTrezorDeviceFound"
    /\ attempt = 1
    /\ opts.waitForPresenceMs = 0
    /\ elapsed = 0

-----------------------------------------------------------------------------
\* header and payload bytes that frame i of a message of len payload bytes
\* carries: 9 + 55 in the first frame, 5 + 59 in a continuation frame
Carried(i, len) ==
    IF i = 1 THEN 9 + Min(55, len)
    ELSE 5 + Min(59, len - 55 - 59 * (i - 2))

(* C17: every frame returned by encodeFrame is exactly REPORT_SIZE (64)    *)
(* bytes long, for the payload lengths 0, 1, 55, 56, 120 and 1000 among    *)
(* others, and a frame that carries fewer bytes is filled up with zeros.   *)
FramesAreReportSized ==
    wirePhase \in {"encoded", "decoded"} =>
        /\ Len(wireFrames) >= 1
        /\ \A i \in 1..Len(wireFrames) :
              /\ Len(wireFrames[i]) = REPORT_SIZE
              /\ \A k \in (Carried(i, Len(wirePayload)) + 1)..REPORT_SIZE :
                    wireFrames[i][k] = 0

\* a payload of 120 bytes was encoded: a full first frame, a full
\* continuation frame and a short last frame
FramesAreReportSizedWitness ==
    /\ wirePhase = "encoded"
    /\ Len(wirePayload) = 120
    /\ Len(wireFrames) = 3
    /\ Carried(3, 120) < REPORT_SIZE

-----------------------------------------------------------------------------
(* C18: decodeFrames returns typeId 0 and the raw input bytes as payload   *)
(* for bytes that carry no first-frame magic, and does not return typeId 0 *)
(* for the frames of a message that encodeFrame produced.                  *)
TypeZeroMeansUnparsed ==
    fnPhase = "applied" =>
        /\ fnInput.kind = "raw" =>
              /\ fnOutput.msgType = 0
              /\ fnOutput.payload = concat(fnInput.frames)
        /\ fnInput.kind = "encoded" => fnOutput.msgType # 0

\* the frames of encodeFrame(0, payload) were decoded
TypeZeroEncodedWitness ==
    /\ fnPhase = "applied"
    /\ fnInput.kind = "encoded"
    /\ fnInput.msgType = 0
    /\ fnInput.frames = encodeFrame(0, PatternPayload(10, 0))
    /\ fnOutput.payload = PatternPayload(10, 0)

-----------------------------------------------------------------------------
(* C19: the logger has no effect on control flow.  A call with a logger    *)
(* that returns never throws the logger's error and, where attempts are    *)
(* allowed, ends only after an attempt was made; so the same holds of the  *)
(* call whatever its logger does, a logger that throws included.           *)
LoggerHasNoEffect ==
    /\ thrown # "LoggerError"
    /\ (pc = "thrown" /\ opts.maxAttempts > 0) => lastErr # "none"

\* the call with a throwing logger ended before its first attempt
LoggerThrewWitness ==
    /\ logger = "throwing"
    /\ pc = "thrown"
    /\ thrown = "LoggerError"
    /\ supported
    /\ opts.maxAttempts > 0
    /\ lastErr = "none"

-----------------------------------------------------------------------------
(* C20: bip32Path gives one entry per segment of the path, n + 2^31 (top   *)
(* bit set, low bits n) for a segment n' and n for a plain segment n; for  *)
(* m/44'/501'/0' these are exactly three entries with the hardened bit set *)
(* and the values 44, 501 and 0.                                           *)
PathParsedAsWritten ==
    fnPhase = "applied" =>
        /\ Len(fnOutput) = Len(fnInput.segments)
        /\ \A i \in 1..Len(fnInput.segments) :
              /\ fnOutput[i].hi = (IF fnInput.segments[i].hardened THEN 1 ELSE 0)
              /\ fnOutput[i].lo = fnInput.segments[i].n
        /\ fnInput.segments = SolanaSegments =>
              /\ Len(fnOutput) = 3
              /\ \A i \in 1..3 : fnOutput[i].hi = 1
              /\ <<fnOutput[1].lo, fnOutput[2].lo, fnOutput[3].lo>> = <<44, 501, 0>>

\* m/44'/501'/0' was parsed by proto.ts
PathParsedWitness ==
    /\ fnPhase = "applied"
    /\ fnInput.impl = "proto"
    /\ fnInput.path = <<"m","/","4","4","'","/","5","0","1","'","/","0","'">>
    /\ Len(fnOutput) = 3

-----------------------------------------------------------------------------
-----------------------------------------------------------------------------
\* the steps of handshake(): the first Initialize is sent once per attempt,
\* after the transport mode was determined; it leads to the request loop or,
\* when it failed, to the one retry; the retry turns the leading-zero mode on
\* on HID and leaves the framing as it is otherwise; the retry leads to the
\* request loop or, when it failed too, to the catch block with no turn of
\* the request loop taken
HandshakeStep ==
    /\ pc' = "handshake" /\ pc # "handshake" => pc = "ifaceinfo"
    /\ pc' = "handshake2" /\ pc # "handshake2" => pc = "handshake"
    /\ pc = "handshake" /\ pc' # pc =>
          /\ pc' \in {"pkloop", "handshake2"}
          /\ pc' = "pkloop" => hidMode' = hidMode
          /\ pc' = "handshake2" /\ isHid => hidMode' = "leadingZero"
          /\ pc' = "handshake2" /\ ~isHid => hidMode' = hidMode
    /\ pc = "handshake2" /\ pc' # pc =>
          /\ pc' \in {"pkloop", "catch"}
          /\ hidMode' = hidMode
          /\ pc' = "catch" => guard' = 0 /\ err' # "none"

-----------------------------------------------------------------------------
\* what an Initialize exchange gives when no response was received
NoReply == {"none", "threw", "type0", "timeout"}

(* C23: the request loop is entered only after a response to Initialize    *)
(* was received within the handshake timeout: when the device sends        *)
(* nothing the handshake fails and no public-key request is sent.          *)
HandshakeHeardDevice ==
    (pc = "pkloop" /\ guard = 0) => initReply \notin NoReply

\* the Initialize exchange timed out with nothing parsed, and the request
\* loop is about to send its first request
SilentHandshakeWitness ==
    /\ pc = "pkloop"
    /\ guard = 0
    /\ variant = "adapter"
    /\ port = "queued"
    /\ initReply = "type0"

(* C24: a well-formed handshake response whose type is not Features is     *)
(* tolerated: it does not trigger the Initialize retry and does not fail   *)
(* the attempt, the request loop comes next.  The retry is therefore taken *)
(* only when the first exchange gave no response.                          *)
NonFeaturesTolerated ==
    pc = "handshake2" => initReply \in NoReply

\* the first Initialize was answered by a well-formed Failure message and
\* the handshake is about to send Initialize again
NonFeaturesRetriedWitness ==
    /\ pc = "handshake2"
    /\ variant = "protocol"
    /\ initReply = "Failure"

\* the same answer in the adapter variant: the request loop comes next
NonFeaturesToleratedWitness ==
    /\ pc = "pkloop"
    /\ guard = 0
    /\ variant = "adapter"
    /\ initReply = "Failure"

\* the turn just taken received a response the loop skips: one without a
\* parsed header (type 0), or one read for a key that gave no key bytes
SkippedResponse ==
    /\ pc = "pkloop"
    /\ \/ turn'.seen = "type0"
       \/ /\ turn'.seen \in {"SolanaPublicKey", "EmptyKey", "Unknown", "Features"}
          /\ keyBytes' = << >>

NoProviderFailsAttempt ==
    /\ [][ (pc = "pkloop" /\ provider = "none"
            /\ turn'.seen = "PassphraseRequest")
              => /\ pc' = "catch"
                 /\ err' = "PassphraseNoUi"
                 /\ turn'.sent = "none"
                 /\ inflight' = Tail(Queued("SolanaGetPublicKey"))
                 /\ UNCHANGED <<passVars, keyVars, outVars>> ]_vars
    /\ [][ (pc = "catch" /\ err = "PassphraseNoUi")
              => /\ pc' \in BetweenAttempts
                 /\ lastErr' = "PassphraseNoUi"
                 /\ ~jsOpen'
                 /\ inflight' = << >>
                 /\ UNCHANGED <<passVars, result>> ]_vars

\* the device asked for the passphrase of a bridge built without a provider,
\* and the attempt is in its catch block
NoProviderWitness ==
    /\ pc = "catch"
    /\ provider = "none"
    /\ err = "PassphraseNoUi"
    /\ turn = [seen |-> "PassphraseRequest", sent |-> "none"]
    /\ acks = 0
    /\ passCalls = 0
    /\ jsOpen

(* C27: each ButtonRequest received in the request loop is answered by      *)
(* exactly one button acknowledgement, written with an empty payload, and   *)
(* the loop then takes its next turn; the ButtonRequest raises no error of  *)
(* its own: the turn fails only when the write of the acknowledgement is    *)
(* rejected by the transport.                                               *)
ButtonRequestAcked ==
    [][ (pc = "pkloop" /\ turn'.seen = "ButtonRequest")
          => \/ /\ pc' = "pkloop"
                /\ turn'.sent = "ButtonAck"
                /\ inflight' = AfterAck(Tail(Queued("SolanaGetPublicKey")),
                                        "ButtonAck")
                /\ guard' = guard + 1
                /\ UNCHANGED <<err, passVars, keyVars, outVars, handleVars>>
             \/ /\ pc' = "catch"
                /\ turn'.sent = "none"
                /\ err' \in WriteErrors
                /\ faults' = faults + 1 ]_vars

\* the device asked for a button press, the acknowledgement was written and
\* waits for the device's answer, and the loop is about to take its next turn
ButtonAckedWitness ==
    /\ pc = "pkloop"
    /\ dev = "button"
    /\ port = "queued"
    /\ turn = [seen |-> "ButtonRequest", sent |-> "ButtonAck"]
    /\ inflight = <<"ButtonAck">>
    /\ guard = 1
    /\ err = "none"

(* C28: connect returns a result only in an attempt where the device sent   *)
(* a public-key payload of non-zero length: the loop leaves for the return  *)
(* only on a SolanaPublicKey response with key bytes, and the string        *)
(* returned is base58 of those bytes.                                       *)
ResultFromPublicKey ==
    /\ pc = "closeok" => /\ turn.seen = "SolanaPublicKey"
                         /\ Len(keyBytes) > 0
                         /\ keyBytes = devKey
    /\ pc = "returned" => /\ Len(keyBytes) > 0
                          /\ result = toBase58(keyBytes)

\* the call returned base58 of the vendor field of a Features message, from
\* a device that sent no public key during the call
FeaturesReturnedWitness ==
    /\ pc = "returned"
    /\ variant = "adapter"
    /\ devKey = << >>
    /\ keyBytes = VendorBytes
    /\ result = toBase58(VendorBytes)

\* the number of frames the framing rule gives a payload of L bytes: 55 bytes
\* beside the first header, 59 beside each continuation header
FrameCount(L) == IF L <= 55 THEN 1 ELSE 1 + ((L - 55) + 58) \div 59

(* C29: for a payload of length L encodeFrame emits one frame when L <= 55  *)
(* and 1 + ceil((L - 55) / 59) frames otherwise; the first frame carries    *)
(* the first-frame magic, the type id and L, and the k-th continuation      *)
(* frame (k = 0, 1, ...) carries the continuation magic and the sequence    *)
(* number k, contiguous from 0 in the order of emission.                    *)
FramesCountedAndNumbered ==
    wirePhase # "input" =>
        LET L == Len(wirePayload) IN
        /\ Len(wireFrames) = FrameCount(L)
        /\ LET first == wireFrames[1] IN
           /\ <<first[1], first[2], first[3]>> = HDR_FIRST
           /\ first[4] * 256 + first[5] = wireType
           /\ ((first[6] * 256 + first[7]) * 256 + first[8]) * 256 + first[9] = L
        /\ \A k \in 0 .. Len(wireFrames) - 2 :
             LET frame == wireFrames[k + 2] IN
             /\ <<frame[1], frame[2], frame[3]>> = HDR_NEXT
             /\ frame[4] * 256 + frame[5] = k

\* a payload of 55 + 59 + 1 bytes was encoded: the second continuation frame
\* carries its last byte under sequence number 1
FramesCountedWitness ==
    /\ wirePhase = "encoded"
    /\ Len(wirePayload) = 115
    /\ Len(wireFrames) = 3
    /\ wireFrames[3][5] = 1
    /\ wireFrames[3][6] = wirePayload[115]

\* the message the device sent
SentMessage == [msgType |-> fnInput.msgType, payload |-> fnInput.payload]

(* C30: inbound bytes that are a valid first frame, alone or behind one     *)
(* leading zero byte, decode to the frame's type id and exactly the         *)
(* declared payload bytes, in decodeFrames and in the receive path of       *)
(* sendAndReceive: the same bytes as without the zero, not shifted by one.  *)
LeadingZeroTolerated ==
    fnPhase = "applied" =>
        /\ fnOutput.decoded = SentMessage
        /\ fnOutput.received = SentMessage

\* what holds of the code: a frame that starts at offset 0 decodes to the
\* message sent, by both
PlainFrameDecoded ==
    (fnPhase = "applied" /\ ~fnInput.lead) =>
        /\ fnOutput.decoded = SentMessage
        /\ fnOutput.received = SentMessage

\* a frame behind a zero byte was read with the package's decoder: the type
\* id is the frame's, the payload begins with the last byte of the header
ShiftedPayloadWitness ==
    /\ fnPhase = "applied"
    /\ fnInput.lead
    /\ fnInput.lib = "package"
    /\ Len(fnInput.payload) = 10
    /\ fnOutput.received.msgType = fnInput.msgType
    /\ Len(fnOutput.received.payload) = 10
    /\ fnOutput.received.payload[1] = 10
    /\ fnOutput.received.payload[2] = fnInput.payload[1]
    /\ fnOutput.decoded.msgType = 0

(* C31: when the transport delivers, in order, the frames encodeFrame(t, p) *)
(* produces for a payload p longer than 55 bytes, sendAndReceive returns    *)
(* type id t and a payload byte-identical to p: continuation headers and    *)
(* padding are not part of it, and it does not return before every declared *)
(* payload byte has arrived.                                                *)
LongResponseReassembled ==
    (fnPhase = "applied" /\ fnInput.shape = "whole"
     /\ Len(fnInput.payload) > 55)
        => /\ fnOutput.adapter.msgType = fnInput.msgType
           /\ fnOutput.adapter.payload = fnInput.payload
           /\ ~fnOutput.wire.threw
           /\ fnOutput.wire.msgType = fnInput.msgType
           /\ fnOutput.wire.payload = fnInput.payload

\* a response of 115 bytes in three frames: sendAndReceive returned after the
\* second frame, with the continuation header '?++' 0 0 in place of payload
\* bytes 56 to 60
HeaderInPayloadWitness ==
    /\ fnPhase = "applied"
    /\ fnInput.shape = "whole"
    /\ Len(fnInput.payload) = 115
    /\ fnOutput.adapter.msgType = fnInput.msgType
    /\ Len(fnOutput.adapter.payload) = 115
    /\ subarray(fnOutput.adapter.payload, 55, 60) = HDR_NEXT \o <<0, 0>>
    /\ fnOutput.adapter.payload[61] = fnInput.payload[56]
    /\ fnOutput.adapter.payload[115] = fnInput.payload[110]
    /\ fnOutput.wire.payload = fnOutput.adapter.payload

\* the reads that delivered something
Delivering(reads) == SelectSeq(reads, LAMBDA part : part # Rejected)

(* C32: a transient transport error on a read of the request loop is        *)
(* recovered locally: when reads reject and later reads deliver the message *)
(* the receive does not throw, and it returns what it returns for the same  *)
(* reads without the rejections, the message sent when that fits one frame. *)
ReadErrorRecovered ==
    (fnPhase = "applied" /\ fnInput.shape = "interrupted")
        => /\ fnOutput.adapter =
                sendAndReceiveRead(Delivering(fnInput.reads), 1, NoHeader,
                                   fnInput.lib)
           /\ fnOutput.message =
                receiveMessageRead(Delivering(fnInput.reads), 1, fnInput.lib)
           /\ ~fnOutput.message.threw
           /\ fnOutput.message.messageType = fnInput.msgType
           /\ fnOutput.message.length = Len(fnInput.payload)
           /\ fnOutput.adapter.msgType = fnInput.msgType
           /\ Len(fnInput.payload) <= 55
                => fnOutput.adapter.payload = fnInput.payload

\* the first read rejected, the second delivered a one-frame response, and
\* both receive paths returned it
ReadErrorRecoveredWitness ==
    /\ fnPhase = "applied"
    /\ fnInput.shape = "interrupted"
    /\ fnInput.reads[1] = Rejected
    /\ Len(fnInput.payload) = 10
    /\ fnOutput.adapter = [msgType |-> fnInput.msgType, payload |-> fnInput.payload]
    /\ fnOutput.message.messageType = fnInput.msgType
    /\ ~fnOutput.message.threw

(* C33: loading the message catalog is idempotent: over any sequence of     *)
(* calls from any code path the definitions are loaded at most once, later  *)
(* calls reuse what was loaded, also when two calls overlap before the      *)
(* first load has completed.                                                *)
CatalogLoadedOnce ==
    /\ definitionLoads <= 1
    /\ rootLoads <= 1

\* two calls overlapped: both passed the test of the flag before either load
\* completed, and the definitions have been loaded twice
LoadedTwiceWitness ==
    /\ definitionLoads = 2
    /\ messageDefinitionsLoaded
    /\ \A c \in Callers : loadPc[c] = "returned"

\* what holds of the code: loadRoot builds its root once, and no call that
\* begins after a load has completed loads again
LoadedOnceWithoutOverlap ==
    /\ rootLoads <= 1
    /\ [][ \A c \in Callers :
             (messageDefinitionsLoaded /\ loadPc[c] = "idle")
                => loadPc'[c] # "loading" ]_vars

\* the invocations of start() whose connectAndGetPublicKey is in progress
InProgress == {s \in Starts : starts[s] = "connecting"}

(* C34: the application serializes calls to the public entry point: start() *)
(* never begins a connectAndGetPublicKey on the shared TrezorBridge while a *)
(* previous one is still in progress.                                       *)
StartsSerialized ==
    Cardinality(InProgress) <= 1

\* Retry was pressed while the connect of the auto-start was in progress:
\* two calls run on the one bridge
OverlappingStartsWitness ==
    /\ phase = "connecting"
    /\ starts[1] = "connecting"
    /\ starts[2] = "connecting"
    /\ starts[3] = "none"

(* C35: once an attempt has decoded a non-empty public key, connect returns *)
(* base58 of that key: a failure of the close() that follows does not turn  *)
(* the attempt into a failure, triggers no retry or backoff, and does not   *)
(* make connect throw.                                                      *)
DecodedKeyReturned ==
    [][ pc = "closeok"
          => /\ pc' = "returned"
             /\ result' = toBase58(keyBytes)
             /\ UNCHANGED <<err, attempt, delays, thrown>> ]_vars

\* the key was decoded, close() was rejected, and the attempt ended in the
\* catch block: the call sleeps its backoff delay before it tries again
CloseFailureRetriedWitness ==
    /\ pc = "backoff"
    /\ lastErr \in CloseErrors
    /\ Len(devKey) > 0
    /\ result = "none"
    /\ delays # << >>

(* C36: sendAndReceive never returns a recognized (non-zero) type id        *)
(* together with a payload shorter than the length declared in the frame    *)
(* header: when the reads end before the declared payload is complete the   *)
(* result is an error or type id 0.                                         *)
NoTruncatedResponse ==
    fnPhase = "applied" =>
        /\ fnOutput.adapter.msgType # 0
              => Len(fnOutput.adapter.payload) >= Len(fnInput.payload)
        /\ (~fnOutput.wire.threw /\ fnOutput.wire.msgType # 0)
              => Len(fnOutput.wire.payload) >= Len(fnInput.payload)

\* a response of 56 bytes whose second frame never came: sendAndReceive of
\* transportAdapter.ts returned the frame's type with the 55 bytes it had
TruncatedResponseWitness ==
    /\ fnPhase = "applied"
    /\ fnInput.shape = "cut"
    /\ Len(fnInput.payload) = 56
    /\ fnOutput.adapter.msgType = fnInput.msgType
    /\ fnOutput.adapter.payload = subarray(fnInput.payload, 0, 55)

\* C37: the transport mode an attempt's handshake starts with is the one
\* derived from the interface class read after that attempt's own open:
\* isHid holds exactly when that read gave class 0x03, also when the read
\* failed, and the leading-zero report mode of an earlier attempt is off
ModeFromOwnOpen ==
    pc = "handshake" =>
        /\ isHid <=> klass = "hid"
        /\ hidMode = "standard"

\* a later attempt whose interface read failed starts its handshake as HID
\* with the leading-zero report mode on, both left by the attempt before
StaleModeWitness ==
    /\ pc = "handshake"
    /\ klass = "throws"
    /\ isHid
    /\ hidMode = "leadingZero"

\* the order in which errors.ts tests the phrase groups
GroupOrder ==
    <<"PERMISSION_DENIED", "DEVICE_NOT_FOUND", "DEVICE_BUSY", "CANCELLED",
      "TRANSPORT">>

\* the earliest, in that order, of the groups a message has phrases of
Earliest(groups) ==
    IF groups = {} THEN "UNKNOWN"
    ELSE GroupOrder[CHOOSE i \in 1..Len(GroupOrder) :
                        /\ GroupOrder[i] \in groups
                        /\ \A j \in 1..(i - 1) : GroupOrder[j] \notin groups]

\* C38: classifyTrezorError gives every message one classification, that of
\* the earliest group it has a phrase of (UNKNOWN when it has none); a message
\* with a permission phrase is never retryable, and retryable is false
\* exactly for PERMISSION_DENIED and CANCELLED
FirstMatchClassifier ==
    fnPhase = "applied" =>
        /\ fnOutput.code = Earliest(fnInput.groups)
        /\ "PERMISSION_DENIED" \in fnInput.groups => ~fnOutput.retryable
        /\ fnOutput.retryable
              <=> fnOutput.code \notin {"PERMISSION_DENIED", "CANCELLED"}

\* 'USB PERMISSION' style: a transport phrase written before a permission
\* phrase is classified PERMISSION_DENIED and not retried
FirstMatchWitness ==
    /\ fnPhase = "applied"
    /\ fnInput.groups = {"TRANSPORT", "PERMISSION_DENIED"}
    /\ includes(toLowerCase(fnInput.text), <<"u","s","b"," ","d","e","n","i","e","d">>)
    /\ fnOutput = [code |-> "PERMISSION_DENIED", retryable |-> FALSE]

\* C39: no log holds data that depends on the passphrase: two passphrase
\* turns that differ only in the value the provider returned leave the same
\* lines in the app's logs, the pulled native debug log included
PassphraseNotLogged ==
    fnPhase = "applied" => fnOutput.first.logs = fnOutput.second.logs

\* two passphrases of the same length give different logs, and the native
\* TX line of the first shows its bytes behind the header, tag and length
PassphraseLoggedWitness ==
    /\ fnPhase = "applied"
    /\ Len(fnInput.first) = MaxPassLen
    /\ Len(fnInput.second) = MaxPassLen
    /\ fnOutput.first.logs # fnOutput.second.logs
    /\ \E i \in 1..Len(fnOutput.first.logs) :
          /\ fnOutput.first.logs[i].line = "TX"
          /\ subarray(fnOutput.first.logs[i].preview, 11, 11 + MaxPassLen)
                = fnInput.first

\* C40: every passphrase request opened by passphraseProvider stays
\* settleable until it is settled: a connect that awaits the provider's
\* promise has its resolver stored, also after disconnect, and
\* passphraseRequired is true exactly while a connect awaits the provider
PassphraseRequestsSettled ==
    /\ \A c \in Connects : coPc[c] = "awaiting" => passphraseResolver = c
    /\ passphraseRequired <=> \E c \in Connects : coPc[c] = "awaiting"

\* after disconnect() the connect still awaits the provider's promise, with
\* no resolver stored and the modal hidden: nothing can settle it any more
OrphanedRequestWitness ==
    \E c \in Connects :
        /\ coPc[c] = "awaiting"
        /\ passphraseResolver = 0
        /\ ~passphraseRequired
        /\ ~isConnecting
        /\ ~isConnected

=============================================================================
